---- MODULE Spec2Model ----
(***************************************************************************)
(* Model of the ecsdk-expo bridge facade: the iOS module                   *)
(* (ios/EcsdkExpoModule.swift) and the Android module (the Kotlin          *)
(* EcsdkExpoModule, README.md lines 787-1251), both in front of the        *)
(* closed-source ELERTS vendor SDK, which is modelled as the environment.  *)
(* Spec / LiveSpec run the facade; ExtractSpec applies the iOS identifier   *)
(* extraction to bounded vendor-object shapes; PluginSpec runs the Expo     *)
(* config plugin withECSDK and the native-file mutators it registers.       *)
(***************************************************************************)
EXTENDS Integers, Sequences, FiniteSets, TLC

(***************************************************************************)
(* Bounds                                                                  *)
(***************************************************************************)
\* how many extra times the vendor may invoke one request's callbacks
MaxExtraFires == 1
\* organization identifiers range over 0..MaxOrgId (0 is the sentinel id)
MaxOrgId == 2
\* how many blocks can wait on the iOS main queue
MaxQueue == 1
\* how many stored properties a vendor object under extraction declares
MaxFields == 2
\* how many times native-project generation evaluates the config plugin
MaxRuns == 2

\* the caller awaits an async call before issuing the next one
Slots == {1}
OrgIds == 0..MaxOrgId
Tokens == {"abc123", "tok2"}
Messages == {"duplicate email", "timeout"}
FcmTokens == {"fcm1", "fcm2"}
Platforms == {"ios", "android"}

(***************************************************************************)
(* Optional values: nil is the empty set, a present value a singleton.     *)
(***************************************************************************)
Nil == {}
Some(x) == {x}
IsSome(o) == o # {}
Get(o) == CHOOSE x \in o : TRUE
Opt(S) == {Nil} \cup {Some(x) : x \in S}

(***************************************************************************)
(* Vendor organization objects.  On iOS the object is inspected through    *)
(* its mirror (fields); on Android through the typed accessors id / name.  *)
(***************************************************************************)
OrgNames == <<"Org A", "Org B", "Org C", "Org D">>
OrgName(i) == IF i \in 1..Len(OrgNames) THEN OrgNames[i] ELSE "Org"

IntField(l, v) == [label |-> l, int |-> TRUE, value |-> v]
OtherField(l) == [label |-> l, int |-> FALSE, value |-> 0]

\* an organization as the vendor server delivers it
VendorOrg(i) ==
  [id |-> i, name |-> OrgName(i), description |-> "desc",
   fields |-> <<OtherField("name"), IntField("organizationId", i)>>]

\* EKOrganization(organizationId: i): an object carrying only the id
EKOrganization(i) ==
  [id |-> i, name |-> "", description |-> "",
   fields |-> <<OtherField("name"), IntField("organizationId", i)>>]

VendorOrgs == {VendorOrg(i) : i \in 1..MaxOrgId}

\* label.contains("organizationId") over the labels the model uses
ContainsOrganizationId(l) ==
  l \in {"organizationId", "_organizationId", "myorganizationIdx"}

IsCandidateLabel(l) ==
  \/ l = "organizationId" \/ l = "id" \/ l = "_organizationId"
  \/ l = "organizationID" \/ l = "_id" \/ ContainsOrganizationId(l)

RECURSIVE ScanFields(_, _)
ScanFields(fields, i) ==
  IF i > Len(fields) THEN 0
  ELSE IF IsCandidateLabel(fields[i].label) /\ fields[i].int
       THEN fields[i].value
       ELSE ScanFields(fields, i + 1)

\* swift: getOrganizationId(from:)
getOrganizationId(org) == ScanFields(org.fields, 1)

\* swift: organizationToDict
organizationToDict(org) ==
  [organizationId |-> getOrganizationId(org), name |-> org.name,
   description |-> org.description]

\* kotlin: mapOf("organizationId" to org.id, "name" to org.name, "description" to "")
androidOrgMap(org) ==
  [organizationId |-> org.id, name |-> org.name, description |-> ""]

SentinelOrganization == [organizationId |-> 0, name |-> "", description |-> ""]

\* a vendor collection (Set / List) turned into the resolved array, in id order
RECURSIVE SetToSeq(_)
SetToSeq(S) ==
  IF S = {} THEN <<>>
  ELSE LET m == CHOOSE x \in S : \A y \in S : x.id <= y.id
       IN <<m>> \o SetToSeq(S \ {m})

\* swift 205-207: Array(organizations).map { organizationToDict(org) }
iosOrgList(S) ==
  LET q == SetToSeq(S) IN [i \in 1..Len(q) |-> organizationToDict(q[i])]

\* kotlin 962-968: organizations.map { org -> mapOf(...) }
androidOrgList(S) ==
  LET q == SetToSeq(S) IN [i \in 1..Len(q) |-> androidOrgMap(q[i])]

(***************************************************************************)
(* Values a promise can be settled with                                    *)
(***************************************************************************)
Val(tag, str, orgs, flag) == [tag |-> tag, str |-> str, orgs |-> orgs, flag |-> flag]
VTokenResponse(t) == Val("tokenResponse", t, <<>>, FALSE)
VList(s) == Val("list", "", s, FALSE)
VSuccess == Val("success", "", <<>>, TRUE)
VBool(b) == Val("bool", "", <<>>, b)
VNull == Val("null", "", <<>>, FALSE)
VOrganization(d) == Val("organization", "", <<d>>, FALSE)
VString(t) == Val("string", t, <<>>, FALSE)

Resolved(v) == [kind |-> "resolve", code |-> "", message |-> "", value |-> v]
Rejected(c, m) == [kind |-> "reject", code |-> c, message |-> m, value |-> VNull]

\* kotlin: error.errorMessage ?: default
Elvis(optMsg, default) == IF IsSome(optMsg) THEN Get(optMsg) ELSE default

(***************************************************************************)
(* Vendor-object shapes for the identifier extraction (swift 6-22)         *)
(***************************************************************************)
\* property labels: the five names the extraction compares with ==, one
\* label that only contains "organizationId", and one unrelated label
FieldLabels == {"organizationId", "id", "_organizationId", "organizationID",
                "_id", "myorganizationIdx", "name"}

\* a stored property either holds an Int (child.value as? Int succeeds) or not
Fields ==
  {OtherField(l) : l \in FieldLabels}
  \cup {IntField(l, v) : l \in FieldLabels, v \in OrgIds}

\* Mirror.children of an object: its stored properties in declaration order,
\* no two with the same label
Mirrors ==
  UNION {{q \in [1..n -> Fields] :
            \A i \in 1..n : \A j \in 1..n : i # j => q[i].label # q[j].label} :
         n \in 0..MaxFields}

(***************************************************************************)
(* Config plugin inputs (withECSDK, src/EcsdkExpoView.tsx)                  *)
(***************************************************************************)
\* JavaScript truthiness of an optional string (undefined and "" are falsy)
Truthy(o) == IsSome(o) /\ Get(o) # ""

\* JavaScript a || b
Or(a, b) == IF Truthy(a) THEN a ELSE b

\* the two copies of withECSDK: validation gated on the prebuild phase
\* (tsx 156-384) and unconditional validation (tsx 502-721)
PluginCopies == {"gated", "unconditional"}

\* googleServicesFile as passed: a string path, or a value of another type
GoogleServicesFiles ==
  {[string |-> TRUE, path |-> "./google-services.json"],
   [string |-> FALSE, path |-> ""]}

AllProps ==
  [ecsdkApiKey : Opt({"api-key"}),
   googleMapsApiKey : Opt({"maps-key"}),
   googleServicesFile : Opt(GoogleServicesFiles),
   githubUsername : Opt({"octocat"}),
   githubToken : Opt({"ghp_props"}),
   productKey : Opt({"product-key"}),
   productName : Opt({"product-name"}),
   appName : {Nil},
   shortDisplayName : {Nil}]

NoProps ==
  [ecsdkApiKey |-> Nil, googleMapsApiKey |-> Nil, googleServicesFile |-> Nil,
   githubUsername |-> Nil, githubToken |-> Nil, productKey |-> Nil,
   productName |-> Nil, appName |-> Nil, shortDisplayName |-> Nil]

\* how the process evaluating the plugin was started: `expo prebuild`,
\* an EAS build, a script that exports EXPO_PREBUILD=1, `expo config`
Commands ==
  {[argv |-> <<"expo", "prebuild">>, EXPO_PREBUILD |-> Nil,
    EAS_BUILD_WORKINGDIR |-> Nil],
   [argv |-> <<"expo", "prebuild">>, EXPO_PREBUILD |-> Nil,
    EAS_BUILD_WORKINGDIR |-> Some("/home/expo/workingdir")],
   [argv |-> <<"node", "generate.js">>, EXPO_PREBUILD |-> Some("1"),
    EAS_BUILD_WORKINGDIR |-> Nil],
   [argv |-> <<"expo", "config">>, EXPO_PREBUILD |-> Nil,
    EAS_BUILD_WORKINGDIR |-> Nil]}

Invocation(c, gprUser, gprKey) ==
  [argv |-> c.argv,
   env |-> [EXPO_PREBUILD |-> c.EXPO_PREBUILD,
            EAS_BUILD_WORKINGDIR |-> c.EAS_BUILD_WORKINGDIR,
            GPR_USER |-> gprUser, GPR_API_KEY |-> gprKey]]

Invocations ==
  {Invocation(c, u, k) :
     c \in Commands, u \in Opt({"env-user"}), k \in Opt({"env-key"})}

ConfigEvaluation ==
  Invocation([argv |-> <<"expo", "config">>, EXPO_PREBUILD |-> Nil,
              EAS_BUILD_WORKINGDIR |-> Nil], Nil, Nil)

\* tsx 176-179
isPrebuildPhase(inv) ==
  \/ inv.env.EXPO_PREBUILD = Some("1")
  \/ \E i \in 1..Len(inv.argv) : inv.argv[i] = "prebuild"
  \/ Truthy(inv.env.EAS_BUILD_WORKINGDIR)

(***************************************************************************)
(* Native files the mutators edit                                          *)
(***************************************************************************)
\* Source text is a sequence of lines (of tokens, where a line is split).
\* A line is its text and the search strings and patterns of the mutators
\* that occur in it.
L(text, marks) == [text |-> text, marks |-> marks]

\* the three lines of a .netrc entry, each ended by a newline
NetrcEntry(m, l, pw) ==
  <<L("machine " \o m,
      IF m = "github.com" THEN {"machine", "machine github.com"}
      ELSE {"machine"}),
    L("  login " \o l, {}),
    L("  password " \o pw, {})>>

\* an empty line
BlankLine == L("", {"blank"})

\* ~/.netrc before generation: no file, or a file with a github.com entry
\* after an entry for another machine
InitialNetrcs ==
  {Nil,
   Some(NetrcEntry("gitlab.com", "me", "glpat") \o <<BlankLine>>
        \o NetrcEntry("github.com", "old-user", "old-token") \o <<BlankLine>>)}

\* .netrc files with or without a github.com entry, with entries of other
\* machines before and after it, separated by an empty line or not
Netrc(before, github, after) ==
  (IF before = "none" THEN <<>>
   ELSE NetrcEntry("gitlab.com", "me", "glpat")
        \o (IF before = "entryAndBlank" THEN <<BlankLine>> ELSE <<>>))
  \o (IF github THEN NetrcEntry("github.com", "old-user", "old-token")
      ELSE <<>>)
  \o (IF after \in {"blank", "blankAndEntry"} THEN <<BlankLine>> ELSE <<>>)
  \o (IF after \in {"entry", "blankAndEntry"}
      THEN NetrcEntry("bitbucket.org", "bb", "bbpat") ELSE <<>>)

Netrcs ==
  {Netrc(b, g, a) :
     b \in {"none", "entry", "entryAndBlank"}, g \in BOOLEAN,
     a \in {"none", "blank", "entry", "blankAndEntry"}}

Property(k, v) == [type |-> "property", key |-> k, value |-> v]

InitialGradleProperties ==
  {<<Property("org.gradle.jvmargs", "-Xmx2048m")>>,
   <<Property("gpr.usr", "old-user"), Property("org.gradle.jvmargs", "-Xmx2048m"),
     Property("gpr.key", "old-token")>>}

\* a <service> of the main application: android:name, android:exported and
\* the action names of its intent filter
Service(n, e, a) == [name |-> n, exported |-> e, actions |-> a]

\* the main application of AndroidManifest.xml
Manifest(md, perms, svc) ==
  [metaData |-> md, usesPermission |-> perms, service |-> svc]

\* the template's main application, and one that already declares a service
InitialManifests ==
  {Manifest({}, Nil, Nil),
   Manifest({}, Some(<<"android.permission.INTERNET">>),
            Some(<<Service("com.example.SyncService", "false", {})>>))}

\* a <string> resource of res/values/strings.xml
StringResource(n, v) == [name |-> n, translatable |-> "false", value |-> v]

\* strings.resources.string before generation: the template's, and one that
\* already carries a PRODUCT resource
InitialStrings ==
  {<<[name |-> "app_name", translatable |-> "true", value |-> "example"]>>,
   <<StringResource("PRODUCT", "old-product"),
     [name |-> "app_name", translatable |-> "true", value |-> "example"]>>}

(***************************************************************************)
(* State                                                                   *)
(***************************************************************************)
VARIABLES
  platform,            \* which native implementation is running
  token,               \* vendor-owned session token (keychain / preferences)
  organizations,       \* vendor-owned cached organization list (optional)
  activeOrganization,  \* vendor-owned active organization (optional)
  requests,            \* per slot: the async call and its promise
  mainQueue,           \* iOS: blocks dispatched to the main queue
  ui,                  \* the UI effect of the step just taken
  storedFCMToken,      \* Android preference "registration_id"
  service,             \* Android: what the messaging service did in the step
  mirror,              \* ExtractSpec: Mirror(reflecting: org).children
  extracted,           \* ExtractSpec: what getOrganizationId returned
  pluginCopy,          \* PluginSpec: which copy of withECSDK is installed
  props,               \* PluginSpec: the plugin configuration (props)
  invocation,          \* PluginSpec: process.argv and process.env
  thrown,              \* PluginSpec: the Error withECSDK threw, if any
  mods,                \* PluginSpec: mutators registered and not yet run
  applied,             \* PluginSpec: mutators run in this generation
  runs,                \* PluginSpec: evaluations of withECSDK so far
  netrc,               \* ~/.netrc (optional: the file may not exist)
  gradleProperties,    \* android/gradle.properties items
  manifest,            \* AndroidManifest.xml main application
  stringsXml,          \* res/values/strings.xml string resources
  appDelegate,         \* ios AppDelegate source, line by line
  mutator,             \* PatchSpec: the source-patching mutator applied
  contents,            \* PatchSpec: modResults.contents, line by line
  previous             \* PatchSpec: contents before the latest application

facadeVars == <<platform, token, organizations, activeOrganization, requests,
                mainQueue, ui, storedFCMToken, service>>
extractVars == <<mirror, extracted>>
pluginVars == <<pluginCopy, props, invocation, thrown, mods, applied, runs,
                netrc, gradleProperties, manifest, stringsXml, appDelegate>>
patchVars == <<mutator, contents, previous>>

vars == <<platform, token, organizations, activeOrganization, requests,
          mainQueue, ui, storedFCMToken, service, mirror, extracted,
          pluginCopy, props,
          invocation, thrown, mods, applied, runs, netrc, gradleProperties,
          manifest, stringsXml, appDelegate, mutator, contents, previous>>

\* no extraction under way
ExtractAtRest == mirror = <<>> /\ extracted = Nil

\* no mutator under study
PatchAtRest == mutator = "none" /\ contents = <<>> /\ previous = <<>>

\* no mutator registered or run, the native files not generated
NoGeneration ==
  /\ pluginCopy = "unconditional"
  /\ thrown = Nil
  /\ mods = <<>>
  /\ applied = {}
  /\ runs = 0
  /\ netrc = Nil
  /\ gradleProperties = <<>>
  /\ manifest = Manifest({}, Nil, Nil)
  /\ stringsXml = <<>>
  /\ appDelegate = <<>>

\* no plugin evaluation under way
PluginAtRest ==
  /\ props = NoProps
  /\ invocation = ConfigEvaluation
  /\ NoGeneration

\* The module is invoked from JavaScript, which runs only while the React
\* context is alive: appContext.reactContext is non-null in every call.
reactContextAvailable == TRUE

\* Besides the call (op, id), its vendor calls in flight and its promise
\* (settles, outcome), a request records what was true when it was issued
\* (hadToken, cachedHit) and what the vendor first delivered to it
\* (delivered, payload: the token or error message).
NoRequest ==
  [op |-> "none", id |-> 0, inflight |-> {}, extraFires |-> 0,
   settles |-> 0, outcome |-> Nil, vendorCalls |-> 0,
   hadToken |-> FALSE, cachedHit |-> FALSE, delivered |-> "none",
   payload |-> Nil, joined |-> FALSE]

\* a vendor call in flight: the API and the organization captured by the
\* callback closure (join only)
Call(api, target) == [api |-> api, target |-> target]

\* effect: "screen" (vendor screen presented), "alert", "throw", "nothing";
\* thread: the thread the function body ran on
UIEffect(op, effect, thread) == [op |-> op, effect |-> effect, thread |-> thread]
NoUI == UIEffect("none", "none", "none")

\* the facade before any call, with nothing stored by the vendor
\* what a run of the messaging service's onNewToken did: whether it invoked
\* ECSDK.clientUpdate and whether an exception left the method
ServiceEffect(op, clientUpdate, propagated) ==
  [op |-> op, clientUpdate |-> clientUpdate, propagated |-> propagated]

NoService == ServiceEffect("none", FALSE, FALSE)

FacadeAtRest ==
  /\ platform = "ios"
  /\ token = Nil
  /\ organizations = Nil
  /\ activeOrganization = Nil
  /\ requests = [s \in Slots |-> NoRequest]
  /\ mainQueue = <<>>
  /\ ui = NoUI
  /\ storedFCMToken = Nil
  /\ service = NoService

Init ==
  /\ platform \in Platforms
  /\ token \in Opt(Tokens)
  /\ organizations \in Opt(SUBSET VendorOrgs)
  /\ activeOrganization \in Opt(VendorOrgs)
  /\ requests = [s \in Slots |-> NoRequest]
  /\ mainQueue = <<>>
  /\ ui = NoUI
  /\ storedFCMToken = Nil
  /\ service = NoService
  /\ ExtractAtRest
  /\ PluginAtRest
  /\ PatchAtRest

(***************************************************************************)
(* Promise settlement: every promise.resolve / promise.reject invocation   *)
(* is counted; the first one decides what the caller observes.             *)
(***************************************************************************)
Settle(r, o) ==
  [r EXCEPT !.settles = @ + 1,
            !.outcome = IF @ = Nil THEN Some(o) ELSE @]

\* a slot takes a new call when it is empty; presentation blocks queued
\* before the call have run
Free(s) == requests[s].op = "none" /\ mainQueue = <<>>

\* the request is settled and no vendor callback is outstanding
Finished(r) == r.op # "none" /\ r.settles > 0 /\ r.inflight = {}

\* no async request is outstanding
Idle == \A s \in Slots : requests[s].op = "none"

NewRequest(op, id) ==
  [NoRequest EXCEPT !.op = op, !.id = id, !.hadToken = IsSome(token)]

\* the request invokes a vendor API whose completion callback is pending
Invoke(r, call) ==
  [r EXCEPT !.inflight = @ \cup {call}, !.vendorCalls = @ + 1]

\* the callback of call c fires; the vendor may invoke it again later
Fired(r, c, again) ==
  IF again THEN [r EXCEPT !.extraFires = @ + 1]
  ELSE [r EXCEPT !.inflight = @ \ {c}]

\* record the first completion the vendor delivered to the request: its
\* kind and the error message it carried
Deliver(r, kind, message) ==
  [r EXCEPT !.delivered = IF @ # "none" THEN @ ELSE kind,
            !.payload = IF r.delivered # "none" THEN @ ELSE message]

CanFire(r, c, again) ==
  /\ c \in r.inflight
  /\ again => r.extraFires < MaxExtraFires

Frame ==
  /\ ui' = NoUI
  /\ service' = NoService
  /\ UNCHANGED <<platform, mainQueue, storedFCMToken, extractVars, pluginVars,
                 patchVars>>

\* the caller has consumed the settled promise
Collect(s) ==
  /\ Finished(requests[s])
  /\ requests' = [requests EXCEPT ![s] = NoRequest]
  /\ UNCHANGED <<token, organizations, activeOrganization>>
  /\ Frame

(***************************************************************************)
(* createClient                                                            *)
(***************************************************************************)
\* swift 140-164 / kotlin 843-874: the call itself
CreateClient(s) ==
  /\ Free(s)
  /\ requests' = [requests EXCEPT ![s] =
       IF platform = "android" /\ ~reactContextAvailable
       THEN Settle(NewRequest("createClient", 0),
                   Rejected("ECSDK_ERROR", "React context not available"))
       ELSE Invoke(NewRequest("createClient", 0), Call("register", Nil))]
  /\ UNCHANGED <<token, organizations, activeOrganization>>
  /\ Frame

\* outcome of createClient's vendor callback for a vendor result
\* res = [ok, token (optional), message (optional)]
createClientOutcome(p, res) ==
  IF p = "ios"
  THEN IF res.ok
       THEN Resolved(VTokenResponse(Get(res.token)))
       ELSE Rejected("CREATE_CLIENT_ERROR",
                     "Error creating account: " \o Get(res.message))
  ELSE IF res.ok
       THEN IF IsSome(res.token)
            THEN Resolved(VTokenResponse(Get(res.token)))
            ELSE Rejected("ECSDK_ERROR", "Failed to register: no client data")
       ELSE Rejected("ECSDK_ERROR", Elvis(res.message, "Unknown error"))

RegisterResults ==
  {[ok |-> TRUE, token |-> Some(t), message |-> Nil] : t \in Tokens}
  \cup {[ok |-> FALSE, token |-> Nil, message |-> Some(m)] : m \in Messages}
  \cup (IF platform = "android"
        THEN {[ok |-> TRUE, token |-> Nil, message |-> Nil],
              [ok |-> FALSE, token |-> Nil, message |-> Nil]}
        ELSE {})

CreateClientCallback(s, res, again) ==
  LET r == requests[s]
      c == Call("register", Nil)
  IN /\ r.op = "createClient"
     /\ CanFire(r, c, again)
     /\ res \in RegisterResults
     /\ requests' = [requests EXCEPT ![s] =
          Settle([Fired(r, c, again) EXCEPT
                    !.delivered = IF @ # "none" THEN @
                                  ELSE IF res.ok THEN "ok" ELSE "error",
                    !.payload = IF r.delivered # "none" THEN @
                                ELSE IF res.ok THEN res.token ELSE res.message],
                 createClientOutcome(platform, res))]
     \* the vendor stores the token it issued
     /\ token' = IF res.ok /\ IsSome(res.token) THEN res.token ELSE token
     /\ UNCHANGED <<organizations, activeOrganization>>
     /\ Frame

(***************************************************************************)
(* updateClientInfo                                                        *)
(***************************************************************************)
\* swift 264-288 / kotlin 877-905
UpdateClientInfo(s) ==
  /\ Free(s)
  /\ requests' = [requests EXCEPT ![s] =
       IF platform = "android" /\ ~reactContextAvailable
       THEN Settle(NewRequest("updateClientInfo", 0),
                   Rejected("ECSDK_ERROR", "React context not available"))
       ELSE Invoke(NewRequest("updateClientInfo", 0), Call("clientUpdate", Nil))]
  /\ UNCHANGED <<token, organizations, activeOrganization>>
  /\ Frame

\* res = [ok, message (optional)]
updateClientInfoOutcome(p, res) ==
  IF p = "ios"
  THEN IF res.ok THEN Resolved(VBool(TRUE))
       ELSE Rejected("UPDATE_CLIENT_ERROR",
                     "Error updating account: " \o Get(res.message))
  ELSE IF res.ok THEN Resolved(VNull)
       ELSE Rejected("ECSDK_ERROR", Elvis(res.message, "Unknown error"))

PlainResults ==
  {[ok |-> TRUE, message |-> Nil]}
  \cup {[ok |-> FALSE, message |-> Some(m)] : m \in Messages}
  \cup (IF platform = "android" THEN {[ok |-> FALSE, message |-> Nil]} ELSE {})

UpdateClientInfoCallback(s, res, again) ==
  LET r == requests[s]
      c == Call("clientUpdate", Nil)
  IN /\ r.op = "updateClientInfo"
     /\ CanFire(r, c, again)
     /\ res \in PlainResults
     /\ requests' = [requests EXCEPT ![s] =
          Settle(Deliver(Fired(r, c, again),
                         IF res.ok THEN "ok" ELSE "error", res.message),
                 updateClientInfoOutcome(platform, res))]
     /\ UNCHANGED <<token, organizations, activeOrganization>>
     /\ Frame

(***************************************************************************)
(* listOrganizations                                                       *)
(***************************************************************************)
\* what the vendor's organization-list call can complete with:
\*   result "orgs": a collection; "noOrgs": the collection is absent
\*   (iOS organizations == nil, Android result["orgs"] == null);
\*   "null": Android result == null
ListResults ==
  {[ok |-> TRUE, result |-> "orgs", orgs |-> S, message |-> Nil] :
      S \in SUBSET VendorOrgs}
  \cup {[ok |-> TRUE, result |-> "noOrgs", orgs |-> {}, message |-> Nil]}
  \cup {[ok |-> FALSE, result |-> "error", orgs |-> {}, message |-> Some(m)] :
      m \in Messages}
  \cup (IF platform = "android"
        THEN {[ok |-> TRUE, result |-> "null", orgs |-> {}, message |-> Nil],
              [ok |-> FALSE, result |-> "error", orgs |-> {}, message |-> Nil]}
        ELSE {})

\* swift 185-190 / kotlin 954-958
ListOrganizations(s, joined) ==
  /\ Free(s)
  /\ requests' = [requests EXCEPT ![s] =
       LET r == [NewRequest("listOrganizations", 0) EXCEPT !.joined = joined] IN
       IF platform = "ios"
       THEN IF token = Nil
            THEN Settle(r, Rejected("LIST_ORG_ERROR",
                          "No client token available. Please login first."))
            ELSE Invoke(r, Call("orgList", Nil))
       ELSE IF ~reactContextAvailable
            THEN Settle(r, Rejected("ECSDK_ERROR", "React context not available"))
            ELSE Invoke(r, Call("orgList", Nil))]
  /\ UNCHANGED <<token, organizations, activeOrganization>>
  /\ Frame

\* variant: an absent or empty collection is treated as a failure
listOrganizationsOutcome_rejectEmpty(p, res) ==
  IF res.ok /\ res.result = "orgs" /\ res.orgs # {}
  THEN Resolved(VList(IF p = "ios" THEN iosOrgList(res.orgs)
                      ELSE androidOrgList(res.orgs)))
  ELSE Rejected(IF p = "ios" THEN "LIST_ORG_ERROR" ELSE "ECSDK_ERROR",
                "No organizations")

\* swift 193-214 / kotlin 959-979
listOrganizationsOutcome(p, res) ==
  IF p = "ios"
  THEN IF res.ok
       THEN IF res.result = "noOrgs" THEN Resolved(VList(<<>>))
            ELSE Resolved(VList(iosOrgList(res.orgs)))
       ELSE Rejected("LIST_ORG_ERROR",
                     "Error listing organizations: " \o Get(res.message))
  ELSE IF res.ok
       THEN IF res.result = "orgs"
            THEN Resolved(VList(androidOrgList(res.orgs)))
            ELSE Resolved(VList(<<>>))
       ELSE Rejected("ECSDK_ERROR",
                     Elvis(res.message, "Failed to get organizations"))

\* variant: the fetched set is not fired into the vendor's cache
organizationsAfterList_notFired(p, res, cache) == cache

\* swift 197-203: ELERTSKit.organizations.fire(organizations) on a non-nil
\* set; the Android handler does not touch the vendor's cache
organizationsAfterList(p, res, cache) ==
  IF p = "ios" /\ res.ok /\ res.result = "orgs" THEN Some(res.orgs) ELSE cache

ListOrganizationsCallback(s, res, again) ==
  LET r == requests[s]
      c == Call("orgList", Nil)
  IN /\ r.op = "listOrganizations"
     /\ CanFire(r, c, again)
     /\ res \in ListResults
     /\ requests' = [requests EXCEPT ![s] =
          Settle(Deliver(Fired(r, c, again),
                         IF res.result = "orgs" /\ res.orgs = {}
                         THEN "empty" ELSE res.result, res.message),
                 listOrganizationsOutcome(platform, res))]
     /\ organizations' = organizationsAfterList(platform, res, organizations)
     /\ UNCHANGED <<token, activeOrganization>>
     /\ Frame

(***************************************************************************)
(* joinOrganization                                                        *)
(***************************************************************************)
\* swift 167-174 / kotlin 988-994
JoinOrganization(s, id) ==
  /\ Free(s)
  /\ requests' = [requests EXCEPT ![s] =
       LET r == NewRequest("joinOrganization", id) IN
       IF platform = "ios"
       THEN IF token = Nil
            THEN Settle(r, Rejected("JOIN_ORG_ERROR",
                          "No client token available. Please login first."))
            ELSE Invoke(r, Call("join", Some(EKOrganization(id))))
       ELSE IF ~reactContextAvailable
            THEN Settle(r, Rejected("ECSDK_ERROR", "React context not available"))
            ELSE Invoke(r, Call("orgList", Nil))]
  /\ UNCHANGED <<token, organizations, activeOrganization>>
  /\ Frame

\* variant: the first organization of the list, whatever its id
FindById_firstOrganization(S, id) ==
  IF S # {} THEN Some(CHOOSE o \in S : \A q \in S : o.id <= q.id) ELSE Nil

\* kotlin 997-998: allOrgs.find { org.id.toString() == organizationId.toString() }
FindById(S, id) ==
  IF \E o \in S : o.id = id
  THEN Some(CHOOSE o \in S : o.id = id /\ \A q \in S : q.id = id => o.id <= q.id)
  ELSE Nil

\* variant: the "organization not found" branch forgets to reject
joinOnList_silentNotFound(f, res) ==
  LET orgToJoin == FindById(res.orgs, f.id)
  IN IF ~res.ok
     THEN Settle(f, Rejected("ECSDK_ERROR",
                   Elvis(res.message, "Failed to get organizations")))
     ELSE IF res.result = "null"
     THEN Settle(f, Rejected("ECSDK_ERROR", "Failed to get organizations"))
     ELSE IF IsSome(orgToJoin)
     THEN Invoke(f, Call("join", orgToJoin))
     ELSE f

\* kotlin 995-1026: what the first (list) callback of Android
\* joinOrganization does to the request f
joinOnList(f, res) ==
  LET orgToJoin == FindById(res.orgs, f.id)
  IN IF ~res.ok
     THEN Settle(f, Rejected("ECSDK_ERROR",
                   Elvis(res.message, "Failed to get organizations")))
     ELSE IF res.result = "null"
     THEN Settle(f, Rejected("ECSDK_ERROR", "Failed to get organizations"))
     ELSE IF IsSome(orgToJoin)
     THEN Invoke(f, Call("join", orgToJoin))
     ELSE Settle(f, Rejected("ECSDK_ERROR", "Organization not found"))

JoinListCallback(s, res, again) ==
  LET r == requests[s]
      c == Call("orgList", Nil)
  IN /\ platform = "android"
     /\ r.op = "joinOrganization"
     /\ CanFire(r, c, again)
     /\ res \in ListResults
     /\ requests' = [requests EXCEPT ![s] =
          joinOnList(IF res.ok THEN Fired(r, c, again)
                     ELSE Deliver(Fired(r, c, again), "error", res.message),
                     res)]
     /\ UNCHANGED <<token, organizations, activeOrganization>>
     /\ Frame

\* swift 174-181 / kotlin 1001-1013
joinOrganizationOutcome(p, res) ==
  IF p = "ios"
  THEN IF res.ok THEN Resolved(VSuccess)
       ELSE Rejected("JOIN_ORG_ERROR", "Error joining org: " \o Get(res.message))
  ELSE IF res.ok THEN Resolved(VSuccess)
       ELSE Rejected("ECSDK_ERROR",
                     Elvis(res.message, "Failed to join organization"))

JoinCallback(s, c, res, again) ==
  LET r == requests[s]
  IN /\ r.op = "joinOrganization"
     /\ c.api = "join"
     /\ CanFire(r, c, again)
     /\ res \in PlainResults
     /\ requests' = [requests EXCEPT ![s] =
          Settle(Deliver(Fired(r, c, again),
                         IF res.ok THEN "ok" ELSE "error", res.message),
                 joinOrganizationOutcome(platform, res))]
     \* kotlin 1004: ECOrganizationHelper.setActiveOrg(context, orgToJoin)
     /\ activeOrganization' =
          IF platform = "android" /\ res.ok THEN c.target ELSE activeOrganization
     /\ UNCHANGED <<token, organizations>>
     /\ Frame

(***************************************************************************)
(* setActiveOrganization / getActiveOrganization                           *)
(***************************************************************************)
\* swift 223-227: organizations.first { getOrganizationId(from: org) == id }
FirstByExtractedId(S, id) ==
  IF \E o \in S : getOrganizationId(o) = id
  THEN Some(CHOOSE o \in S : getOrganizationId(o) = id)
  ELSE Nil

\* variant: the active organization is only replaced when a session exists
iosOrganizationToSet_sessionGated(cache, id) ==
  IF token = Nil THEN activeOrganization
  ELSE LET found == IF IsSome(cache) THEN FirstByExtractedId(Get(cache), id)
                    ELSE Nil
       IN IF IsSome(found) THEN found ELSE Some(EKOrganization(id))

\* variant: the cached organization list is never consulted
iosOrganizationToSet_alwaysFresh(cache, id) == Some(EKOrganization(id))

\* swift 218-235: the organization that becomes active
iosOrganizationToSet(cache, id) ==
  LET found == IF IsSome(cache) THEN FirstByExtractedId(Get(cache), id) ELSE Nil
  IN IF IsSome(found) THEN found ELSE Some(EKOrganization(id))

\* variant: the joined list is skipped and every id goes to the vendor
targetOrgFromJoined_skipCache(cache, id) == Nil

\* kotlin 1058-1059: joinedOrgs?.find { it.id == organizationId }
targetOrgFromJoined(cache, id) ==
  IF IsSome(cache) THEN FindById(Get(cache), id) ELSE Nil

\* swift 218-235 / kotlin 1053-1066
SetActiveOrganization(s, id) ==
  LET r == [NewRequest("setActiveOrganization", id) EXCEPT
              !.cachedHit = \E o \in UNION organizations : o.id = id]
      joined == targetOrgFromJoined(organizations, id)
  IN /\ Free(s)
     /\ IF platform = "ios"
        THEN /\ activeOrganization' = iosOrganizationToSet(organizations, id)
             /\ requests' = [requests EXCEPT ![s] = Settle(r, Resolved(VSuccess))]
        ELSE IF ~reactContextAvailable
        THEN /\ requests' = [requests EXCEPT ![s] =
                  Settle(r, Rejected("ECSDK_ERROR", "React context not available"))]
             /\ UNCHANGED activeOrganization
        ELSE IF IsSome(joined)
        THEN /\ activeOrganization' = joined
             /\ requests' = [requests EXCEPT ![s] = Settle(r, Resolved(VSuccess))]
        ELSE /\ requests' = [requests EXCEPT ![s] = Invoke(r, Call("orgList", Nil))]
             /\ UNCHANGED activeOrganization
     /\ UNCHANGED <<token, organizations>>
     /\ Frame

\* kotlin 1067-1087: what the list callback of Android
\* setActiveOrganization settles the promise with
setActiveOnListOutcome(res, id) ==
  IF ~res.ok
  THEN Rejected("ECSDK_ERROR", Elvis(res.message, "Failed to get organizations"))
  ELSE IF res.result = "null"
  THEN Rejected("ECSDK_ERROR", "Failed to get organizations")
  ELSE IF IsSome(FindById(res.orgs, id))
  THEN Resolved(VSuccess)
  ELSE Rejected("ECSDK_ERROR", "Organization not found")

SetActiveListCallback(s, res, again) ==
  LET r == requests[s]
      c == Call("orgList", Nil)
      o == setActiveOnListOutcome(res, r.id)
      d == IF ~res.ok THEN "error"
           ELSE IF res.result = "null" THEN "null"
           ELSE IF \E g \in res.orgs : g.id = r.id THEN "hit" ELSE "miss"
      f == [Fired(r, c, again) EXCEPT !.delivered = IF @ = "none" THEN d ELSE @]
  IN /\ platform = "android"
     /\ r.op = "setActiveOrganization"
     /\ CanFire(r, c, again)
     /\ res \in ListResults
     /\ requests' = [requests EXCEPT ![s] = Settle(f, o)]
     \* kotlin 1073: ECOrganizationHelper.setActiveOrg(context, targetOrg)
     /\ activeOrganization' =
          IF o.kind = "resolve" THEN FindById(res.orgs, r.id)
          ELSE activeOrganization
     /\ UNCHANGED <<token, organizations>>
     /\ Frame

\* variant: an absent active organization is passed through as null
getActiveOrganizationOutcome_nullWhenAbsent(p, active) ==
  IF IsSome(active)
  THEN Resolved(VOrganization(IF p = "ios" THEN organizationToDict(Get(active))
                              ELSE androidOrgMap(Get(active))))
  ELSE Resolved(VNull)

\* swift 238-249 / kotlin 908-930: what getActiveOrganization settles with
getActiveOrganizationOutcome(p, active) ==
  IF p = "android" /\ ~reactContextAvailable
  THEN Rejected("ECSDK_ERROR", "React context not available")
  ELSE IF IsSome(active)
  THEN Resolved(VOrganization(IF p = "ios" THEN organizationToDict(Get(active))
                              ELSE androidOrgMap(Get(active))))
  ELSE Resolved(VOrganization(SentinelOrganization))

GetActiveOrganization(s) ==
  /\ Free(s)
  /\ requests' = [requests EXCEPT ![s] =
       Settle(NewRequest("getActiveOrganization", 0),
              getActiveOrganizationOutcome(platform, activeOrganization))]
  /\ UNCHANGED <<token, organizations, activeOrganization>>
  /\ Frame

(***************************************************************************)
(* FCM token management (Android only)                                     *)
(***************************************************************************)
\* kotlin 1130-1147; res = [ok, token (optional), message (optional)]
FcmTaskResults ==
  {[ok |-> TRUE, token |-> t, message |-> Nil] : t \in Opt(FcmTokens)}
  \cup {[ok |-> FALSE, token |-> Nil, message |-> m] : m \in Opt(Messages)}

GetFCMToken(s) ==
  /\ platform = "android"
  /\ Free(s)
  /\ requests' = [requests EXCEPT ![s] =
       Invoke(NewRequest("getFCMToken", 0), Call("fcmTask", Nil))]
  /\ UNCHANGED <<token, organizations, activeOrganization>>
  /\ Frame

getFCMTokenOutcome(res) ==
  IF res.ok
  THEN IF IsSome(res.token) THEN Resolved(VString(Get(res.token)))
       ELSE Rejected("ECSDK_ERROR", "FCM token is null")
  ELSE Rejected("ECSDK_ERROR",
                "Failed to get FCM token: " \o Elvis(res.message, "null"))

GetFCMTokenCallback(s, res, again) ==
  LET r == requests[s]
      c == Call("fcmTask", Nil)
  IN /\ r.op = "getFCMToken"
     /\ CanFire(r, c, again)
     /\ res \in FcmTaskResults
     /\ requests' = [requests EXCEPT ![s] =
          Settle(Fired(r, c, again), getFCMTokenOutcome(res))]
     /\ UNCHANGED <<token, organizations, activeOrganization>>
     /\ Frame

\* variant: the token is saved only once the client is known to be registered
storedAfterUpdate_whenRegistered(fcmToken, stored, clientToken) ==
  IF IsSome(fcmToken) /\ IsSome(clientToken) THEN fcmToken ELSE stored

\* kotlin 1155-1158: if (fcmToken != null) putString(PROPERTY_REG_ID, fcmToken),
\* ahead of the registration check
storedAfterUpdate(fcmToken, stored, clientToken) ==
  IF IsSome(fcmToken) THEN fcmToken ELSE stored

\* kotlin 1150-1187
UpdateFCMToken(s, fcmToken) ==
  LET r == NewRequest("updateFCMToken", 0)
  IN /\ platform = "android"
     /\ Free(s)
     /\ IF ~reactContextAvailable
        THEN /\ requests' = [requests EXCEPT ![s] =
                  Settle(r, Rejected("ECSDK_ERROR", "React context not available"))]
             /\ UNCHANGED storedFCMToken
        ELSE /\ storedFCMToken' =
                  storedAfterUpdate(fcmToken, storedFCMToken, token)
             /\ requests' = [requests EXCEPT ![s] =
                  IF IsSome(token)
                  THEN Invoke(r, Call("clientUpdate", Nil))
                  ELSE Settle(r, Rejected("ECSDK_ERROR",
                                "Client not registered. Please register first."))]
     /\ ui' = NoUI
     /\ service' = NoService
     /\ UNCHANGED <<token, organizations, activeOrganization,
                    platform, mainQueue, extractVars, pluginVars,
                    patchVars>>

updateFCMTokenOutcome(res) ==
  IF res.ok THEN Resolved(VSuccess)
  ELSE Rejected("ECSDK_ERROR", Elvis(res.message, "Failed to update FCM token"))

UpdateFCMTokenCallback(s, res, again) ==
  LET r == requests[s]
      c == Call("clientUpdate", Nil)
  IN /\ r.op = "updateFCMToken"
     /\ CanFire(r, c, again)
     /\ res \in PlainResults
     /\ requests' = [requests EXCEPT ![s] =
          Settle(Fired(r, c, again), updateFCMTokenOutcome(res))]
     /\ UNCHANGED <<token, organizations, activeOrganization>>
     /\ Frame

(***************************************************************************)
(* login / logout (synchronous; the vendor owns the session)               *)
(***************************************************************************)
\* swift 291-293 / kotlin 1217-1228
Login(clientToken) ==
  /\ token' = Some(clientToken)
  /\ UNCHANGED <<organizations, activeOrganization, requests>>
  /\ Frame

\* swift 296-298 / kotlin 1231-1242
Logout ==
  /\ token' = Nil
  /\ UNCHANGED <<organizations, activeOrganization, requests>>
  /\ Frame

\* swift 252-261 / kotlin 1035-1050: getAvailableOrganizations reads the
\* vendor's cached list
getAvailableOrganizations ==
  IF platform = "ios"
  THEN IF IsSome(organizations) THEN VList(iosOrgList(Get(organizations)))
       ELSE VList(<<>>)
  ELSE IF IsSome(organizations) /\ Get(organizations) # {}
       THEN VList(androidOrgList(Get(organizations)))
       ELSE VList(<<>>)

\* swift getClientToken / kotlin 1245-1249: the stored token, or null
getClientToken == IF IsSome(token) THEN VString(Get(token)) ELSE VNull

(***************************************************************************)
(* UI presentation                                                         *)
(***************************************************************************)
PresentOps == {"presentReportScreen", "presentOrganizationScreen",
               "presentProfileScreen", "showMessageList", "showCallPrompt"}
SessionScreens == {"presentOrganizationScreen", "presentProfileScreen",
                   "showMessageList"}

\* swift 327-338: the organization presentReportScreen re-fires as active
reportOrgToUse(cache, activeOrg) ==
  LET fullOrg == IF IsSome(cache)
                 THEN FirstByExtractedId(Get(cache), getOrganizationId(activeOrg))
                 ELSE Nil
  IN IF IsSome(fullOrg) THEN fullOrg ELSE Some(activeOrg)

\* swift 301-481: the block a presentation function runs on the main queue;
\* hasRoot: a window scene with a root view controller exists
iosBlockEffect(op, hasRoot) ==
  IF op = "showCallPrompt" THEN "screen"
  ELSE IF ~hasRoot THEN "nothing"
  ELSE IF op = "presentReportScreen"
       THEN IF IsSome(activeOrganization) THEN "screen" ELSE "alert"
       ELSE IF IsSome(token) THEN "screen" ELSE "alert"

\* kotlin 933-951, 1097-1125: the Android presentation functions;
\* hasActivity: appContext.currentActivity is non-null
androidPresentEffect(op, hasActivity) ==
  IF ~hasActivity THEN "throw"
  ELSE IF op = "presentReportScreen"
       THEN IF ~reactContextAvailable \/ activeOrganization = Nil
            THEN "throw" ELSE "screen"
       ELSE "screen"

\* kotlin 933, 939, 946, 1097, 1121: a Function body is not moved to another
\* queue; it runs on the JavaScript thread that calls it
androidFunctionThread == "js"

\* the JavaScript call of a presentation function.  Presentation and async
\* requests are sequenced (Idle here, an empty main queue in Free): no
\* vendor callback reads the state a presentation block writes, and no
\* presentation block reads a request.
Present(op, hasActivity) ==
  /\ op \in PresentOps
  /\ Idle
  /\ IF platform = "ios"
     THEN /\ Len(mainQueue) < MaxQueue
          /\ mainQueue' = Append(mainQueue, op)
          /\ ui' = NoUI
     ELSE /\ ui' = UIEffect(op, androidPresentEffect(op, hasActivity),
                          androidFunctionThread)
          /\ UNCHANGED mainQueue
  /\ service' = NoService
  /\ UNCHANGED <<platform, token, organizations, activeOrganization, requests,
                 storedFCMToken, extractVars, pluginVars, patchVars>>

\* DispatchQueue.main.async: the queued block runs
RunMain(hasRoot) ==
  /\ mainQueue # <<>>
  /\ LET op == Head(mainQueue)
         e == iosBlockEffect(op, hasRoot)
     IN /\ ui' = UIEffect(op, e, "main")
        /\ activeOrganization' =
             IF op = "presentReportScreen" /\ e = "screen"
             THEN reportOrgToUse(organizations, Get(activeOrganization))
             ELSE activeOrganization
  /\ mainQueue' = Tail(mainQueue)
  /\ service' = NoService
  /\ UNCHANGED <<platform, token, organizations, requests, storedFCMToken,
                 extractVars, pluginVars, patchVars>>

(***************************************************************************)
(* ECSDKFirebaseMessagingService                                           *)
(***************************************************************************)
\* where the send step throws: nowhere, while building regData / clientData
\* (kt 82-87), or inside ECSDK.clientUpdate (kt 91)
SendFailures == {"none", "beforeUpdate", "inUpdate"}

\* variant: the token is sent whether or not a client is registered
sendTokenToServer_unregistered(clientToken, failure) ==
  ServiceEffect("onNewToken", failure # "beforeUpdate", FALSE)

\* ECSDKFirebaseMessagingService.kt 77-97: whether clientUpdate was invoked
\* and whether an exception left the method (catch (e: Exception) around
\* the whole body)
sendTokenToServer(clientToken, failure) ==
  ServiceEffect("onNewToken", failure # "beforeUpdate" /\ IsSome(clientToken),
                FALSE)

\* ECSDKFirebaseMessagingService.kt 42-50: Firebase delivers a new token.
\* The service shares only the client token and the stored FCM token with
\* the module's functions; its runs are taken between their calls.
OnNewToken(fcmToken, failure) ==
  /\ platform = "android"
  /\ Idle
  /\ storedFCMToken' = Some(fcmToken)
  /\ service' = sendTokenToServer(token, failure)
  /\ ui' = NoUI
  /\ UNCHANGED <<platform, token, organizations, activeOrganization, requests,
                 mainQueue, extractVars, pluginVars, patchVars>>

\* kotlin 1190-1193: getStoredFCMToken reads the preference
getStoredFCMToken ==
  IF IsSome(storedFCMToken) THEN VString(Get(storedFCMToken)) ELSE VNull

Next ==
  \/ \E s \in Slots :
       \/ CreateClient(s)
       \/ \E again \in BOOLEAN : \E res \in RegisterResults :
            CreateClientCallback(s, res, again)
       \/ UpdateClientInfo(s)
       \/ \E again \in BOOLEAN : \E res \in PlainResults :
            UpdateClientInfoCallback(s, res, again)
       \/ \E joined \in BOOLEAN : ListOrganizations(s, joined)
       \/ \E again \in BOOLEAN : \E res \in ListResults :
            ListOrganizationsCallback(s, res, again)
       \/ \E id \in OrgIds : JoinOrganization(s, id)
       \/ \E again \in BOOLEAN : \E res \in ListResults :
            JoinListCallback(s, res, again)
       \/ \E again \in BOOLEAN : \E res \in PlainResults :
            \E c \in requests[s].inflight : JoinCallback(s, c, res, again)
       \/ \E id \in OrgIds : SetActiveOrganization(s, id)
       \/ \E again \in BOOLEAN : \E res \in ListResults :
            SetActiveListCallback(s, res, again)
       \/ GetActiveOrganization(s)
       \/ GetFCMToken(s)
       \/ \E again \in BOOLEAN : \E res \in FcmTaskResults :
            GetFCMTokenCallback(s, res, again)
       \/ \E t \in Opt(FcmTokens) : UpdateFCMToken(s, t)
       \/ \E again \in BOOLEAN : \E res \in PlainResults :
            UpdateFCMTokenCallback(s, res, again)
  \/ \E t \in Tokens : Login(t)
  \/ Logout
  \/ \E s \in Slots : Collect(s)
  \/ \E op \in PresentOps : \E h \in BOOLEAN : Present(op, h)
  \/ \E h \in BOOLEAN : RunMain(h)
  \/ \E t \in FcmTokens : \E f \in SendFailures : OnNewToken(t, f)

Spec == Init /\ [][Next]_vars

\* the vendor SDK eventually invokes the completion callback of every call
VendorCallback(s) ==
  \E again \in BOOLEAN :
    \/ \E res \in RegisterResults : CreateClientCallback(s, res, again)
    \/ \E res \in PlainResults : UpdateClientInfoCallback(s, res, again)
    \/ \E res \in ListResults : ListOrganizationsCallback(s, res, again)
    \/ \E res \in ListResults : JoinListCallback(s, res, again)
    \/ \E res \in PlainResults :
         \E c \in requests[s].inflight : JoinCallback(s, c, res, again)
    \/ \E res \in ListResults : SetActiveListCallback(s, res, again)
    \/ \E res \in FcmTaskResults : GetFCMTokenCallback(s, res, again)
    \/ \E res \in PlainResults : UpdateFCMTokenCallback(s, res, again)

LiveSpec == Spec /\ \A s \in Slots : WF_vars(VendorCallback(s))

(***************************************************************************)
(* Identifier extraction applied to every bounded vendor-object shape      *)
(***************************************************************************)
ExtractInit ==
  /\ FacadeAtRest
  /\ PluginAtRest
  /\ PatchAtRest
  /\ mirror \in Mirrors
  /\ extracted = Nil

\* swift 6-22: getOrganizationId(from:) on the object under inspection
Extract ==
  /\ extracted = Nil
  /\ extracted' = Some(getOrganizationId([fields |-> mirror]))
  /\ UNCHANGED <<mirror, facadeVars, pluginVars, patchVars>>

ExtractNext == Extract

ExtractSpec == ExtractInit /\ [][ExtractNext]_vars

(***************************************************************************)
(* The config plugin withECSDK and the mutators it registers               *)
(***************************************************************************)
ErrApiKey ==
  "ECSDK Config Plugin Error: 'ecsdkApiKey' is required but not provided."
ErrMapsKey ==
  "ECSDK Config Plugin Error: 'googleMapsApiKey' is required for Android but not provided."
ErrGitHub ==
  "ECSDK Config Plugin Error: GitHub credentials are required to access private ECSDK packages."
ErrServicesFile ==
  "ECSDK Config Plugin Error: 'googleServicesFile' is required."
ErrServicesFileType ==
  "ECSDK Config Plugin Error: 'googleServicesFile' must be a string path, got: object"

\* variant: googleServicesFile is optional (only its type is checked)
withECSDKValidation_optionalServicesFile(copy, p, inv) ==
  LET shouldValidate == copy = "unconditional" \/ isPrebuildPhase(inv)
      gprUser == IF copy = "gated" THEN p.githubUsername
                 ELSE Or(p.githubUsername, inv.env.GPR_USER)
      gprKey == IF copy = "gated" THEN p.githubToken
                ELSE Or(p.githubToken, inv.env.GPR_API_KEY)
  IN IF shouldValidate /\ ~Truthy(p.ecsdkApiKey) THEN Some(ErrApiKey)
     ELSE IF shouldValidate /\ ~Truthy(p.googleMapsApiKey) THEN Some(ErrMapsKey)
     ELSE IF shouldValidate /\ (~Truthy(gprUser) \/ ~Truthy(gprKey))
          THEN Some(ErrGitHub)
     ELSE IF IsSome(p.googleServicesFile) /\ ~Get(p.googleServicesFile).string
          THEN Some(ErrServicesFileType)
     ELSE Nil

\* tsx 184-312 (gated copy) / 519-648 (unconditional copy): the Error the
\* validation throws, if any
withECSDKValidation(copy, p, inv) ==
  LET shouldValidate == copy = "unconditional" \/ isPrebuildPhase(inv)
      gprUser == IF copy = "gated" THEN p.githubUsername
                 ELSE Or(p.githubUsername, inv.env.GPR_USER)
      gprKey == IF copy = "gated" THEN p.githubToken
                ELSE Or(p.githubToken, inv.env.GPR_API_KEY)
  IN IF shouldValidate /\ ~Truthy(p.ecsdkApiKey) THEN Some(ErrApiKey)
     ELSE IF shouldValidate /\ ~Truthy(p.googleMapsApiKey) THEN Some(ErrMapsKey)
     ELSE IF shouldValidate /\ (~Truthy(gprUser) \/ ~Truthy(gprKey))
          THEN Some(ErrGitHub)
     ELSE IF shouldValidate /\ ~IsSome(p.googleServicesFile)
          THEN Some(ErrServicesFile)
     ELSE IF IsSome(p.googleServicesFile) /\ ~Get(p.googleServicesFile).string
          THEN Some(ErrServicesFileType)
     ELSE Nil

\* tsx 323-381 / 659-718: the mutators withECSDK applies, in order
BaseMods ==
  <<"withReportInfoPlist", "withReportBackgroundModes", "withSPMGitHubAuth",
    "withSPMFrameworks", "withAppDelegateInitialization", "withECSDKManifest",
    "withECSDKStrings", "withECSDKGradleProperties",
    "withGitHubPackagesRepository", "withECSDKDependency",
    "withCoreLibraryDesugaring", "withECSDKMainApplication",
    "withIOSModularHeaders">>

GoogleServicesMods ==
  <<"withGoogleServicesGradle", "withGoogleServicesAppGradle",
    "withGoogleServicesFile">>

withECSDKMods(p) ==
  BaseMods \o (IF IsSome(p.googleServicesFile) THEN GoogleServicesMods ELSE <<>>)

\* the mutators whose file edits are modelled
FileMods ==
  {"withSPMGitHubAuth", "withECSDKManifest", "withECSDKGradleProperties",
   "withECSDKStrings", "withAppDelegateInitialization"}

(***************************************************************************)
(* Searching and splicing source text                                      *)
(***************************************************************************)
\* String.prototype.includes / a pattern that matches somewhere
Includes(src, m) == \E i \in 1..Len(src) : m \in src[i].marks

\* the first line a pattern matches in (0: no match)
FirstIndex(src, m) ==
  IF Includes(src, m)
  THEN CHOOSE i \in 1..Len(src) :
         m \in src[i].marks /\ \A j \in 1..(i - 1) : m \notin src[j].marks
  ELSE 0

\* the last line a pattern matches in (0: no match)
LastIndex(src, m) ==
  IF Includes(src, m)
  THEN CHOOSE i \in 1..Len(src) :
         m \in src[i].marks /\ \A j \in (i + 1)..Len(src) : m \notin src[j].marks
  ELSE 0

\* contents.slice(0, at) + block + contents.slice(at), at after line i
InsertAfter(src, i, block) ==
  SubSeq(src, 1, i) \o block \o SubSeq(src, i + 1, Len(src))

\* the first line after line k a pattern matches in (0: no match)
FirstIndexAfter(src, k, m) ==
  IF \E i \in (k + 1)..Len(src) : m \in src[i].marks
  THEN CHOOSE i \in (k + 1)..Len(src) :
         m \in src[i].marks /\ \A j \in (k + 1)..(i - 1) : m \notin src[j].marks
  ELSE 0

\* part_003 47-51: "machine github.com\n  login u\n  password k\n\n"
githubEntry(gprUser, gprKey) ==
  NetrcEntry("github.com", gprUser, gprKey) \o <<BlankLine>>

\* part_003 43: [\s\S]*?(?=machine|\n\n|$) from the github.com line g: the
\* last line the match reaches into
MatchEnd(content, g) ==
  CHOOSE e \in g..Len(content) :
    /\ e = Len(content)
       \/ "blank" \in content[e + 1].marks
       \/ "machine" \in content[e + 1].marks
    /\ \A j \in g..(e - 1) :
         /\ "blank" \notin content[j + 1].marks
         /\ "machine" \notin content[j + 1].marks

\* part_003 43-59: replace the first github.com entry, else append one.  A
\* match that stops at "\n\n" leaves out the newline that ends its last
\* line: after the replacement that newline is an empty line of its own.
PutGithubEntry(content, e) ==
  LET g == FirstIndex(content, "machine github.com")
      last == MatchEnd(content, g)
      stopsAtBlankLine ==
        last < Len(content) /\ "blank" \in content[last + 1].marks
  IN IF g = 0 THEN content \o e
     ELSE SubSeq(content, 1, g - 1) \o e
          \o (IF stopsAtBlankLine THEN <<BlankLine>> ELSE <<>>)
          \o SubSeq(content, last + 1, Len(content))

\* part_003 16-76: ~/.netrc after the withSPMGitHubAuth mod; fsOk: the file
\* operations inside the try block succeed
spmGitHubAuthNetrc(file, p, env, fsOk) ==
  LET gprUser == Or(p.githubUsername, env.GPR_USER)
      gprKey == Or(p.githubToken, env.GPR_API_KEY)
  IN IF ~Truthy(gprUser) \/ ~Truthy(gprKey) THEN file
     ELSE IF ~fsOk THEN file
     ELSE Some(PutGithubEntry(IF IsSome(file) THEN Get(file) ELSE <<>>,
                              githubEntry(Get(gprUser), Get(gprKey))))

\* gradle.js 19-21: filter(item => item.type !== "property" || item.key !== key)
RECURSIVE WithoutProperty(_, _)
WithoutProperty(items, key) ==
  IF items = <<>> THEN <<>>
  ELSE (IF Head(items).type # "property" \/ Head(items).key # key
        THEN <<Head(items)>> ELSE <<>>)
       \o WithoutProperty(Tail(items), key)

\* gradle.js 10-43: gradle.properties after the withECSDKGradleProperties mod
withECSDKGradlePropertiesResult(items, p) ==
  LET gprUser == p.githubUsername
      gprKey == p.githubToken
      a == IF Truthy(gprUser)
           THEN Append(WithoutProperty(items, "gpr.usr"),
                       Property("gpr.usr", Get(gprUser)))
           ELSE items
  IN IF Truthy(gprKey)
     THEN Append(WithoutProperty(a, "gpr.key"), Property("gpr.key", Get(gprKey)))
     ELSE a

\* manifest.js 60, 66: the android:name the plugin registers
RegisteredServiceName == "expo.modules.ecsdk.ECSDKFirebaseMessagingService"

\* ECSDKFirebaseMessagingService.kt 1, 26: package and class of the service
ShippedServiceClass ==
  "expo.modules.ecsdkexpo" \o "." \o "ECSDKFirebaseMessagingService"

\* AndroidConfig.Manifest.addMetaDataItemToMainApplication (manifest.js 31-45)
addMetaDataItem(md, name, value) ==
  {x \in md : x.name # name} \cup {[name |-> name, value |-> value]}

\* manifest.js 6-23
addPermissionToManifest(perms, permission) ==
  LET list == IF IsSome(perms) THEN Get(perms) ELSE <<>>
  IN Some(IF \E i \in 1..Len(list) : list[i] = permission THEN list
          ELSE Append(list, permission))

\* manifest.js 58-61: filter(service => service.$["android:name"] !== name)
RECURSIVE WithoutService(_, _)
WithoutService(services, name) ==
  IF services = <<>> THEN <<>>
  ELSE (IF Head(services).name # name THEN <<Head(services)>> ELSE <<>>)
       \o WithoutService(Tail(services), name)

\* manifest.js 25-83: the main application after the withECSDKManifest mod
withECSDKManifestResult(m, p) ==
  LET md1 == IF Truthy(p.ecsdkApiKey)
             THEN addMetaDataItem(m.metaData, "com.elerts.ApiKey",
                                  Get(p.ecsdkApiKey))
             ELSE m.metaData
      md2 == IF Truthy(p.googleMapsApiKey)
             THEN addMetaDataItem(md1, "com.google.android.geo.API_KEY",
                                  Get(p.googleMapsApiKey))
             ELSE md1
      services == IF IsSome(m.service) THEN Get(m.service) ELSE <<>>
  IN Manifest(md2,
              addPermissionToManifest(m.usesPermission,
                                      "android.permission.POST_NOTIFICATIONS"),
              Some(Append(WithoutService(services, RegisteredServiceName),
                          Service(RegisteredServiceName, "false",
                                  {"com.google.firebase.MESSAGING_EVENT"}))))

(***************************************************************************)
(* strings.xml (withECSDKStrings, plugins/android/manifest.js 92-171)      *)
(***************************************************************************)
\* a destructuring default: it applies to undefined only
Default(o, d) == IF IsSome(o) THEN o ELSE Some(d)

\* filter(item => item.$.name !== name)
RECURSIVE WithoutString(_, _)
WithoutString(strings, name) ==
  IF strings = <<>> THEN <<>>
  ELSE (IF Head(strings).name # name THEN <<Head(strings)>> ELSE <<>>)
       \o WithoutString(Tail(strings), name)

\* manifest.js 97-112, 115-130, 133-148: remove the resource, push the new one
PutString(strings, name, value) ==
  IF Truthy(value)
  THEN Append(WithoutString(strings, name), StringResource(name, Get(value)))
  ELSE strings

\* manifest.js 92-171: the string resources after the withECSDKStrings mod;
\* o is the options object the mutator destructures
withECSDKStringsResult(strings, o) ==
  PutString(
    PutString(
      PutString(PutString(strings, "PRODUCT", o.productName),
                "app_name", o.appName),
      "short_display_name", o.shortDisplayName),
    "LIST_MESSAGE_SERVICE", Some("com.elerts.ecsdk.LIST_MESSAGE_SERVICE"))

\* tsx 344-348 (gated copy): { productName, appName, shortDisplayName } with
\* productName = "PROVIDED BY ELERTS" by default; tsx 680-685 (unconditional
\* copy): { productKey, appName, shortDisplayName }, an object that has no
\* productName
withECSDKStringsOptions(copy, p) ==
  [productName |-> IF copy = "gated"
                   THEN Default(p.productName, "PROVIDED BY ELERTS")
                   ELSE Nil,
   appName |-> p.appName,
   shortDisplayName |-> p.shortDisplayName]

\* tsx 331-334 / 667-670: { apiKey: ecsdkApiKey, productKey }; the
\* unconditional copy destructures productKey = "PROVIDED BY ELERTS"
withAppDelegateOptions(copy, p) ==
  [apiKey |-> p.ecsdkApiKey,
   productKey |-> IF copy = "gated" THEN p.productKey
                  ELSE Default(p.productKey, "PROVIDED BY ELERTS")]

(***************************************************************************)
(* Project build.gradle (plugins/android/gradle.js 48-121), token by token *)
(***************************************************************************)
OpenBrace == L("{", {"{"})
CloseBrace == L("}", {"}"})

\* name\s*{ : the block opens at token i
OpensBlock(src, i, name) ==
  i < Len(src) /\ name \in src[i].marks /\ "{" \in src[i + 1].marks

\* the first name\s*{ after token k (0: none)
FirstBlockAfter(src, k, name) ==
  IF \E i \in (k + 1)..Len(src) : OpensBlock(src, i, name)
  THEN CHOOSE i \in (k + 1)..Len(src) :
         /\ OpensBlock(src, i, name)
         /\ \A j \in (k + 1)..(i - 1) : ~OpensBlock(src, j, name)
  ELSE 0

\* gradle.js 56-57, 97-98: /outer\s*{[\s\S]*?inner\s*{([^}]*?)}/ : the opening
\* brace of the first inner block after the first outer block, and the first
\* closing brace after it (close = 0: no match)
blockMatch(src, outer, inner) ==
  LET a == FirstBlockAfter(src, 0, outer)
      r == IF a = 0 THEN 0 ELSE FirstBlockAfter(src, a + 1, inner)
      c == IF r = 0 THEN 0 ELSE FirstIndexAfter(src, r + 1, "}")
  IN [open |-> r + 1, close |-> c]

\* gradle.js 61-72
githubPackagesRepo ==
  <<L("// GitHub Packages for ECSDK-Android", {}),
    L("maven", {"maven"}), OpenBrace,
    L("name = \"GitHubPackages\"", {}),
    L("url = uri(\"https://maven.pkg.github.com/elerts/ecsdk-android\")",
      {"maven.pkg.github.com/elerts/ecsdk-android"}),
    L("credentials", {"credentials"}), OpenBrace,
    L("username = System.getenv(\"GPR_USER\") ?: project.findProperty(\"gpr.usr\")", {}),
    L("password = System.getenv(\"GPR_API_KEY\") ?: project.findProperty(\"gpr.key\")", {}),
    CloseBrace, CloseBrace>>

\* gradle.js 48-84: project build.gradle after withGitHubPackagesRepository
withGitHubPackagesRepositoryResult(src) ==
  LET match == blockMatch(src, "allprojects", "repositories")
  IN IF Includes(src, "maven.pkg.github.com/elerts/ecsdk-android") THEN src
     ELSE IF match.close = 0 THEN src
     ELSE InsertAfter(src, match.close - 1, githubPackagesRepo)

\* gradle.js 89-121: project build.gradle after withGoogleServicesGradle
withGoogleServicesGradleResult(src) ==
  LET match == blockMatch(src, "buildscript", "dependencies")
  IN IF Includes(src, "com.google.gms:google-services") THEN src
     ELSE IF match.close = 0 THEN src
     ELSE IF \E i \in (match.open + 1)..(match.close - 1) :
               "classpath" \in src[i].marks
     THEN InsertAfter(src, match.close - 1, (<<L("classpath('com.google.gms:google-services:4.4.0')",
                                             {"classpath", "com.google.gms:google-services"})>>))
     ELSE src

Block(name, body) == <<L(name, {name}), OpenBrace>> \o body \o <<CloseBrace>>

JitpackRepository ==
  <<L("maven", {"maven"}), OpenBrace, L("url 'https://www.jitpack.io'", {}),
    CloseBrace>>

\* a project build.gradle of the Expo template: a buildscript block whose
\* dependencies hold classpath entries or nothing, an allprojects block
\* whose repositories are plain calls, with or without the template's
\* nested maven { url 'https://www.jitpack.io' }, before or after them
ProjectBuildGradle(buildscript, allprojects) ==
  (IF buildscript = "none" THEN <<>>
   ELSE Block("buildscript",
          Block("repositories", <<L("google()", {})>>)
          \o Block("dependencies",
                IF buildscript = "classpath"
                THEN <<L("classpath('com.android.tools.build:gradle')",
                         {"classpath"})>>
                ELSE <<>>)))
  \o (IF allprojects = "none" THEN <<>>
      ELSE Block("allprojects",
             Block("repositories",
                   (IF allprojects = "nestedFirst" THEN JitpackRepository
                    ELSE <<>>)
                   \o <<L("google()", {}), L("mavenCentral()", {})>>
                   \o (IF allprojects = "nestedLast" THEN JitpackRepository
                       ELSE <<>>))))

ProjectBuildGradles ==
  {ProjectBuildGradle(b, a) :
     b \in {"none", "classpath", "empty"},
     a \in {"none", "flat", "nestedFirst", "nestedLast"}}

(***************************************************************************)
(* App build.gradle (plugins/android/gradle.js 126-230), token by token    *)
(***************************************************************************)
\* gradle.js 139
googleServicesPlugin ==
  <<L("apply plugin: \"com.google.gms.google-services\"",
      {"apply plugin: \"com.google.gms.google-services\""})>>

\* gradle.js 126-151: app build.gradle after withGoogleServicesAppGradle
withGoogleServicesAppGradleResult(src) ==
  IF Includes(src, "apply plugin: \"com.google.gms.google-services\"") THEN src
  ELSE IF ~Includes(src, "applyPluginRegex") THEN src
  ELSE InsertAfter(src, FirstIndex(src, "applyPluginRegex"),
                   googleServicesPlugin)

\* gradle.js 169-170
ecsdkDependency ==
  <<L("implementation 'com.elerts.libraries:elertsui:2.2.6'",
      {"com.elerts.libraries:elertsui"})>>

\* variant: the dependency is added without looking for an earlier one
withECSDKDependencyResult_unguarded(src) ==
  IF FirstBlockAfter(src, 0, "dependencies") = 0 THEN src
  ELSE InsertAfter(src, FirstBlockAfter(src, 0, "dependencies") + 1,
                   ecsdkDependency)

\* gradle.js 156-183: app build.gradle after withECSDKDependency
withECSDKDependencyResult(src) ==
  IF Includes(src, "com.elerts.libraries:elertsui") THEN src
  ELSE IF FirstBlockAfter(src, 0, "dependencies") = 0 THEN src
  ELSE InsertAfter(src, FirstBlockAfter(src, 0, "dependencies") + 1,
                   ecsdkDependency)

\* gradle.js 197-203
compileOptions ==
  <<L("compileOptions", {"compileOptions"}), OpenBrace,
    L("coreLibraryDesugaringEnabled = true", {"coreLibraryDesugaringEnabled"}),
    L("sourceCompatibility = JavaVersion.VERSION_17", {}),
    L("targetCompatibility = JavaVersion.VERSION_17", {}),
    CloseBrace>>

\* gradle.js 216-217
desugarDependency ==
  <<L("coreLibraryDesugaring 'com.android.tools:desugar_jdk_libs:2.1.5'",
      {"desugar_jdk_libs"})>>

\* gradle.js 188-230: app build.gradle after withCoreLibraryDesugaring
withCoreLibraryDesugaringResult(src) ==
  LET a == IF Includes(src, "coreLibraryDesugaringEnabled") THEN src
           ELSE IF FirstBlockAfter(src, 0, "android") = 0 THEN src
           ELSE InsertAfter(src, FirstBlockAfter(src, 0, "android") + 1,
                            compileOptions)
  IN IF Includes(a, "desugar_jdk_libs") THEN a
     ELSE IF FirstBlockAfter(a, 0, "dependencies") = 0 THEN a
     ELSE InsertAfter(a, FirstBlockAfter(a, 0, "dependencies") + 1,
                      desugarDependency)

\* an app build.gradle of the Expo template, with or without each of: the
\* React plugin line, the android block, the dependencies block; patched:
\* the file already has the plugin's lines
AppBuildGradle(react, android, dependencies, patched) ==
  <<L("apply plugin: \"com.android.application\"", {})>>
  \o (IF react THEN <<(L("apply plugin: \"com.facebook.react\"", {"applyPluginRegex"}))>> ELSE <<>>)
  \o (IF patched THEN googleServicesPlugin ELSE <<>>)
  \o (IF android
      THEN Block("android",
                 (IF patched THEN compileOptions ELSE <<>>)
                 \o <<L("namespace 'com.example.app'", {})>>)
      ELSE <<>>)
  \o (IF dependencies
      THEN Block("dependencies",
                 (IF patched THEN ecsdkDependency \o desugarDependency
                  ELSE <<>>)
                 \o <<L("implementation(\"com.facebook.react:react-android\")",
                        {})>>)
      ELSE <<>>)

AppBuildGradles ==
  {AppBuildGradle(r, a, d, p) :
     r \in BOOLEAN, a \in BOOLEAN, d \in BOOLEAN, p \in BOOLEAN}

(***************************************************************************)
(* MainApplication.kt (plugins/android/mainApplication.js 3-166)           *)
(***************************************************************************)
BlockEnd == L("  }", {"}"})
\* mainApplication.js 63-69
attachBaseContext ==
  <<L("override fun attachBaseContext(base: Context) {",
      {"override fun attachBaseContext", "attachBaseContextPattern", "{"}),
    L("        super.attachBaseContext(ECUISDK.getBaseContext(base))", {}),
    L("    }", {"}"}),
    BlankLine, BlankLine, BlankLine>>

\* mainApplication.js 129-136 / 146-153
onConfigurationChanged ==
  <<L("override fun onConfigurationChanged(newConfig: Configuration) {",
      {"onConfigChangedMethodRegex", "{"}),
    L("        super.onConfigurationChanged(newConfig)", {}),
    L("        ecuisdk.onConfigurationChanged(this)",
      {"ecuisdk.onConfigurationChanged(this)"}),
    L("    }", {"}"}),
    BlankLine, BlankLine, BlankLine>>

\* mainApplication.js 9-29: the imports not yet present, after the package line
addImports(src) ==
  LET importsNeeded ==
        (IF Includes(src, "import android.content.Context") THEN <<>>
         ELSE <<(L("import android.content.Context", {"import android.content.Context"}))>>)
        \o (IF Includes(src, "import android.content.res.Configuration")
            THEN <<>> ELSE <<(L("import android.content.res.Configuration",
                              {"import android.content.res.Configuration"}))>>)
        \o (IF Includes(src, "import com.elerts.ecsdk.ui.ECUISDK") THEN <<>>
            ELSE <<(L("import com.elerts.ecsdk.ui.ECUISDK", {"import com.elerts.ecsdk.ui.ECUISDK"}))>>)
  IN IF importsNeeded = <<>> \/ ~Includes(src, "packagePattern") THEN src
     ELSE InsertAfter(src, FirstIndex(src, "packagePattern"),
                      <<BlankLine>> \o importsNeeded)

\* mainApplication.js 88-101: braces open after the lines open..j
RECURSIVE braceCount(_, _, _)
braceCount(src, open, j) ==
  IF j < open THEN 0
  ELSE braceCount(src, open, j - 1)
       + (IF "{" \in src[j].marks THEN 1 ELSE 0)
       - (IF "}" \in src[j].marks THEN 1 ELSE 0)

\* mainApplication.js 86-101: the line of the matching closing brace (0: none)
closingBracePos(src, open) ==
  IF \E c \in (open + 1)..Len(src) : braceCount(src, open, c) = 0
  THEN CHOOSE c \in (open + 1)..Len(src) :
         /\ braceCount(src, open, c) = 0
         /\ \A j \in (open + 1)..(c - 1) : braceCount(src, open, j) # 0
  ELSE 0

\* mainApplication.js 77-161
addOnConfigurationChanged(src) ==
  IF Includes(src, "ecuisdk.onConfigurationChanged(this)") THEN src
  ELSE IF Includes(src, "onConfigChangedMethodRegex")
  THEN LET close ==
             closingBracePos(src, FirstIndex(src, "onConfigChangedMethodRegex"))
       IN IF close = 0 THEN src
          ELSE InsertAfter(src, close - 1, (<<L("    ecuisdk.onConfigurationChanged(this)",
                                            {"ecuisdk.onConfigurationChanged(this)"})>>))
  ELSE IF /\ Includes(src, "attachBaseContextPattern")
          /\ FirstIndexAfter(src, FirstIndex(src, "attachBaseContextPattern"),
                             "}") # 0
  THEN InsertAfter(src,
         FirstIndexAfter(src, FirstIndex(src, "attachBaseContextPattern"), "}"),
         onConfigurationChanged)
  ELSE IF Includes(src, "onCreatePattern")
  THEN InsertAfter(src, FirstIndex(src, "onCreatePattern") - 1,
                   onConfigurationChanged)
  ELSE src

\* mainApplication.js 3-166: MainApplication.kt after withECSDKMainApplication
withECSDKMainApplicationResult(src) ==
  LET a == addImports(src)
      b == IF Includes(a, "private lateinit var ecuisdk: ECUISDK") THEN a
           ELSE IF ~Includes(a, "classMatch") THEN a
           ELSE InsertAfter(a, FirstIndex(a, "classMatch"), (<<L("    private lateinit var ecuisdk: ECUISDK",
                                                             {"private lateinit var ecuisdk: ECUISDK"}),
                                                             BlankLine>>))
      c == IF Includes(b, "ecuisdk = ECUISDK(this)") THEN b
           ELSE IF ~Includes(b, "onCreatePattern") THEN b
           ELSE InsertAfter(b, FirstIndex(b, "onCreatePattern"),
                            (<<L("        ecuisdk = ECUISDK(this)", {"ecuisdk = ECUISDK(this)"})>>))
      d == IF Includes(c, "override fun attachBaseContext") THEN c
           ELSE IF ~Includes(c, "onCreatePattern") THEN c
           ELSE InsertAfter(c, FirstIndex(c, "onCreatePattern") - 1,
                            attachBaseContext)
  IN addOnConfigurationChanged(d)

\* a MainApplication.kt with or without each of: the package line, an import
\* of ContextWrapper, a class that extends Application(), onCreate, its own
\* attachBaseContext, onConfigurationChanged (plain or with a nested block)
MainApplication(package, wrapper, application, create, attach, changed) ==
  (IF package THEN <<(L("package com.example.app", {"packagePattern"}))>> ELSE <<>>)
  \o <<L("import android.app.Application", {})>>
  \o (IF wrapper THEN <<(L("import android.content.ContextWrapper", {"import android.content.Context"}))>> ELSE <<>>)
  \o <<IF application THEN (L("class MainApplication : Application(), ReactApplication {",
                            {"classMatch"})) ELSE (L("class MainApplication : MultiDexApplication(), ReactApplication {", {}))>>
  \o (IF attach THEN (<<L("  override fun attachBaseContext(base: Context) {",
                      {"override fun attachBaseContext", "attachBaseContextPattern", "{"}),
                      L("    super.attachBaseContext(base)", {}),
                      BlockEnd>>) ELSE <<>>)
  \o (IF create THEN <<(L("  override fun onCreate() {", {"onCreatePattern", "{"})), (L("    super.onCreate()", {})), BlockEnd>> ELSE <<>>)
  \o (IF changed = "none" THEN <<>>
      ELSE <<(L("  override fun onConfigurationChanged(newConfig: Configuration) {",
              {"onConfigChangedMethodRegex", "{"})), (L("    super.onConfigurationChanged(newConfig)", {}))>>
           \o (IF changed = "nested" THEN (<<L("    if (newConfig.orientation == Configuration.ORIENTATION_LANDSCAPE) {",
                                           {"{"}),
                                           L("      relayout()", {}),
                                           L("    }", {"}"})>>) ELSE <<>>)
           \o <<BlockEnd>>)
  \o <<L("}", {"}"})>>

MainApplications ==
  {MainApplication(p, w, a, c, t, g) :
     p \in BOOLEAN, w \in BOOLEAN, a \in BOOLEAN, c \in BOOLEAN,
     t \in BOOLEAN, g \in {"none", "plain", "nested"}}

(***************************************************************************)
(* Podfile (withSPMFrameworks, unnamed/part_003 84-368)                    *)
(***************************************************************************)
PostInstallLine ==
  L("  post_install do |installer|", {"postInstallMatch"})
EndLine == L("  end", {"end"})
\* part_003 89-104: the target's name, else a name made from the app config
projectName(src) ==
  IF Includes(src, "targetMatch") THEN "example" ELSE "ECSDKExample"

\* part_003 121-230: the code injected into the post_install block
spmFrameworkCode(name) ==
  <<L("    # Automatically add SPM frameworks to main app target", {}),
    L("    main_project = installer.aggregate_targets.find { |target| target.user_project.path.basename.to_s == '"
      \o name \o ".xcodeproj' }&.user_project", {}),
    L("    if main_project", {}),
    L("      main_target = main_project.targets.find { |target| target.name == '"
      \o name \o "' }", {}),
    L("      if main_target", {}),
    L("        main_project.save", {}),
    L("        puts \"Added SPM frameworks to main target with search paths\"",
      {"Added SPM frameworks to main target"}),
    L("      end", {"end"}),
    L("    end", {"end"})>>

\* part_003 245-358: a post_install block of its own around the same code
postInstallBlock(name) ==
  <<PostInstallLine>> \o spmFrameworkCode(name) \o <<EndLine>>

\* part_003 84-368: the Podfile after withSPMFrameworks
withSPMFrameworksResult(src) ==
  LET post == FirstIndex(src, "postInstallMatch")
      firstEnd == IF post = 0 THEN 0 ELSE FirstIndexAfter(src, post, "end")
      target == FirstIndex(src, "targetMatch")
  IN IF firstEnd # 0
     THEN IF Includes(src, "Added SPM frameworks to main target") THEN src
          ELSE InsertAfter(src, firstEnd - 1, spmFrameworkCode(projectName(src)))
     ELSE IF /\ target # 0
             /\ target < Len(src)
             /\ "end" \in src[Len(src)].marks
     THEN InsertAfter(src, Len(src) - 1, postInstallBlock(projectName(src)))
     ELSE src

\* a Podfile with or without a target, a post_install block (taking
\* |installer| or another name) and a comment after the last end
Podfile(target, postInstall, trailer) ==
  <<L("require 'json'", {})>>
  \o (IF target THEN <<(L("target 'example' do", {"targetMatch"}))>> ELSE <<L("abstract_target :common do", {})>>)
  \o <<L("  use_expo_modules!", {})>>
  \o (IF postInstall = "none" THEN <<>>
      ELSE <<IF postInstall = "installer" THEN PostInstallLine
             ELSE (L("  post_install do |pi|", {})),
             (L("    react_native_post_install(installer)", {})), EndLine>>)
  \o <<(L("end", {"end"}))>>
  \o (IF trailer THEN <<(L("# eof", {}))>> ELSE <<>>)

Podfiles ==
  {Podfile(t, p, c) :
     t \in BOOLEAN, p \in {"none", "installer", "other"}, c \in BOOLEAN}

(***************************************************************************)
(* AppDelegate (withAppDelegateInitialization, unnamed/part_003 385-731)   *)
(***************************************************************************)
ReturnTrue == L("    return true", {})
MethodEnd == L("  }", {"closingBrace"})
ClassEnd == L("}", {"closingBrace", "newlineBrace"})
\* a Swift AppDelegate of the Expo template, with or without each of: the
\* two launch methods, a public class, a note naming the initializer, its own
\* background fetch handler, a comment after the class
SwiftAppDelegate(will, did, public, note, fetch, trailer) ==
  <<(L("import Expo", {"import"}))>>
  \o (IF note THEN <<(L("// ELERTSKit.initializeDataUI(apiKey:) is called after onboarding",
                      {"ELERTSKit.initializeDataUI"}))>> ELSE <<>>)
  \o <<IF public THEN (L("public class AppDelegate: ExpoAppDelegate {", {"classPattern"})) ELSE (L("class AppDelegate: UIResponder, UIApplicationDelegate {", {}))>>
  \o (IF will THEN <<(L("  public override func application(_ application: UIApplication, willFinishLaunchingWithOptions launchOptions: [UIApplication.LaunchOptionsKey: Any]? = nil) -> Bool {",
                      {"willFinishLaunchingPattern"})), ReturnTrue, MethodEnd>> ELSE <<>>)
  \o (IF did THEN <<(L("  public override func application(_ application: UIApplication, didFinishLaunchingWithOptions launchOptions: [UIApplication.LaunchOptionsKey: Any]? = nil) -> Bool {",
                     {"didFinishLaunchingPattern"})), ReturnTrue, MethodEnd>> ELSE <<>>)
  \o (IF fetch THEN <<(L("  public func application(_ application: UIApplication, performFetchWithCompletionHandler completionHandler: @escaping (UIBackgroundFetchResult) -> Void) {",
                       {"performFetchWithCompletionHandler"})), MethodEnd>> ELSE <<>>)
  \o <<ClassEnd>>
  \o (IF trailer THEN <<(L("// end of AppDelegate", {}))>> ELSE <<>>)

AppDelegates ==
  {SwiftAppDelegate(w, d, p, n, f, t) :
     w \in BOOLEAN, d \in BOOLEAN, p \in BOOLEAN, n \in BOOLEAN,
     f \in BOOLEAN, t \in BOOLEAN}
  \cup {(<<(L("#import \"AppDelegate.h\"", {"import"})), (L("@implementation AppDelegate", {})), (L("- (BOOL)application:(UIApplication *)application didFinishLaunchingWithOptions:(NSDictionary *)launchOptions",
         {})), (L("{", {})),
         (L("  return YES;", {})), ClassEnd, (L("@end", {}))>>)}

\* the app config's extra carries no ECSDK keys
configExtra == [ecsdkApiKey |-> Nil, ecsdkProductKey |-> Nil]

\* part_003 413-431: the import statements, after the last import line
addELERTSKitImports(src) ==
  IF Includes(src, "import ELERTSKitCore") THEN src
  ELSE InsertAfter(src, LastIndex(src, "import"),
                   <<(L("import ELERTSKitCore", {"import", "import ELERTSKitCore"})), (L("import ELERTSKitUI", {"import"}))>>)

\* part_003 441-445 / 485-489
productKeyCode(productKey) ==
  IF Truthy(productKey)
  THEN L("        ELERTSKit.productKey = \"" \o Get(productKey) \o "\"", {})
  ELSE L("        if let productKey = Bundle.main.object(forInfoDictionaryKey: \"ECSDK_PRODUCT_KEY\") as? String { ELERTSKit.productKey = productKey }",
         {})

InitializeDataUICall ==
  L("        ELERTSKit.initializeDataUI(apiKey: ecsdkApiKey)",
    {"ELERTSKit.initializeDataUI"})

\* part_003 447-460 / 491-504: the injected code; note: the comment line
\* that differs between the two methods
initializationCode(apiKey, productKey, note) ==
  <<L("        // Initialize ELERTSKit - injected by ecsdk-expo plugin", {}),
    L(note, {}),
    L("        var ecsdkApiKey = \"" \o apiKey \o "\"", {}),
    L("        if let apiKeyFromPlist = Bundle.main.object(forInfoDictionaryKey: \"ECSDK_API_KEY\") as? String { ecsdkApiKey = apiKeyFromPlist }",
      {}),
    InitializeDataUICall,
    L("        ELERTSKit.backgroundFetchManager = EKBackgroundFetchManager()", {}),
    productKeyCode(productKey),
    L("        EKNotificationManager.default.delegate = self", {})>>

\* part_003 433-525: after the opening brace of willFinishLaunchingWithOptions,
\* else of didFinishLaunchingWithOptions, else a warning and no injection
injectInitialization(src, apiKey, productKey) ==
  IF Includes(src, "willFinishLaunchingPattern")
  THEN InsertAfter(src, FirstIndex(src, "willFinishLaunchingPattern"),
         initializationCode(apiKey, productKey,
           "        // This must be called in willFinishLaunchingWithOptions on the main thread"))
  ELSE IF Includes(src, "didFinishLaunchingPattern")
  THEN InsertAfter(src, FirstIndex(src, "didFinishLaunchingPattern"),
         initializationCode(apiKey, productKey,
           "        // This must be called on the main thread"))
  ELSE src

\* part_003 527-540: "$1, EKNotificationManagerDelegate" on the class line
addNotificationDelegate(src) ==
  IF Includes(src, "EKNotificationManagerDelegate") THEN src
  ELSE IF Includes(src, "classPattern")
  THEN [src EXCEPT ![FirstIndex(src, "classPattern")] =
          L("public class AppDelegate: ExpoAppDelegate , EKNotificationManagerDelegate{",
            {"classPattern", "EKNotificationManagerDelegate"})]
  ELSE src

\* part_003 546-565, 567-580 / 588-658, 660-726: before the closing brace that ends the
\* file, else before the last closing brace that starts a line
insertAtClassEnd(src, block) ==
  IF Len(src) > 1 /\ "closingBrace" \in src[Len(src)].marks
  THEN InsertAfter(src, Len(src) - 1, block)
  ELSE IF LastIndex(src, "newlineBrace") > 1
  THEN InsertAfter(src, LastIndex(src, "newlineBrace") - 1, block)
  ELSE src

\* part_003 385-731: the Error thrown, if any, and the AppDelegate source
\* after the withAppDelegateInitialization mod
withAppDelegateInitializationResult(src, options) ==
  LET apiKey == Or(options.apiKey, configExtra.ecsdkApiKey)
      productKey == Or(options.productKey, configExtra.ecsdkProductKey)
  IN IF ~Truthy(apiKey)
     THEN [error |-> Some(("ECSDK Config Plugin Error: ECSDK API key is required for iOS AppDelegate initialization but not found.")), contents |-> src]
     ELSE IF Includes(src, "ELERTSKit.initializeDataUI")
     THEN [error |-> Nil, contents |-> src]
     ELSE
       LET a == addELERTSKitImports(src)
           b == injectInitialization(a, Get(apiKey), productKey)
           c == addNotificationDelegate(b)
           d == IF Includes(c, "performFetchWithCompletionHandler") THEN c
                ELSE insertAtClassEnd(c, (<<L("  // Background fetch handler - injected by ecsdk-expo plugin", {}),
                                          L("  public func application(_ application: UIApplication, performFetchWithCompletionHandler completionHandler: @escaping (UIBackgroundFetchResult) -> Void) {",
                                          {"performFetchWithCompletionHandler"}),
                                          L("      ELERTSKit.backgroundFetchManager.application(application, performFetchWithCompletionHandler: completionHandler)",
                                          {"performFetchWithCompletionHandler"}),
                                          L("  }", {"closingBrace"})>>))
           e == IF Includes(d, "didRegisterForRemoteNotificationsWithDeviceToken")
                THEN d
                ELSE insertAtClassEnd(d, (<<L("  // MARK: - Remote Notifications - injected by ecsdk-expo plugin", {}),
                                          L("  public func application(_ application: UIApplication, didRegisterForRemoteNotificationsWithDeviceToken deviceToken: Data) { EKNotificationManager.default.application(application, didRegisterForRemoteNotificationsWithDeviceToken: deviceToken) }",
                                          {"didRegisterForRemoteNotificationsWithDeviceToken"}),
                                          L("  public func application(_ application: UIApplication, didReceiveRemoteNotification userInfo: [AnyHashable : Any], fetchCompletionHandler completionHandler: @escaping (UIBackgroundFetchResult) -> Void) { EKNotificationManager.default.application(application, didReceiveRemoteNotification: userInfo, fetchCompletionHandler: completionHandler) }",
                                          {}),
                                          L("  public func application(_ application: UIApplication, didFailToRegisterForRemoteNotificationsWithError error: Error) { EKNotificationManager.default.application(application, didFailToRegisterForRemoteNotificationsWithError: error) }",
                                          {}),
                                          L("  // MARK: - EKNotificationManagerDelegate - injected by ecsdk-expo plugin",
                                          {"EKNotificationManagerDelegate"}),
                                          L("  public func getTopViewController() -> UIViewController? { ... }", {}),
                                          L("  public func openViewForNotification() { ... }", {})>>))
       IN [error |-> Nil, contents |-> e]

PluginInit ==
  /\ FacadeAtRest
  /\ ExtractAtRest
  /\ PatchAtRest
  /\ pluginCopy \in PluginCopies
  /\ props \in AllProps
  /\ invocation \in Invocations
  /\ thrown = Nil
  /\ mods = <<>>
  /\ applied = {}
  /\ runs = 0
  /\ netrc \in InitialNetrcs
  /\ gradleProperties \in InitialGradleProperties
  /\ manifest \in InitialManifests
  /\ stringsXml \in InitialStrings
  /\ appDelegate = (SwiftAppDelegate(FALSE, TRUE, TRUE, FALSE, FALSE, FALSE))

\* Native-project generation is the run the plugin recognises as the prebuild
\* phase: only then are the registered mods compiled against the native files.
Generating == isPrebuildPhase(invocation)

\* tsx 156-384 / 502-721: what withECSDK leaves registered; a thrown Error
\* leaves nothing
withECSDKRegistered(e, p) == IF IsSome(e) THEN <<>> ELSE withECSDKMods(p)

\* one evaluation of withECSDK(config, props)
WithECSDK ==
  LET e == withECSDKValidation(pluginCopy, props, invocation)
  IN /\ runs < MaxRuns
     /\ mods = <<>> \/ ~Generating
     /\ runs' = runs + 1
     /\ thrown' = e
     /\ mods' = withECSDKRegistered(e, props)
     /\ applied' = {}
     /\ UNCHANGED <<pluginCopy, props, invocation, netrc, gradleProperties,
                    manifest, stringsXml, appDelegate, facadeVars,
                    extractVars, patchVars>>

\* the next registered mutator is run
ModRuns(name) == Generating /\ mods # <<>> /\ Head(mods) = name

ModDone ==
  /\ mods' = Tail(mods)
  /\ applied' = applied \cup {Head(mods)}
  /\ UNCHANGED <<pluginCopy, props, invocation, thrown, runs, facadeVars,
                 extractVars, patchVars>>

SPMGitHubAuthMod(fsOk) ==
  /\ ModRuns("withSPMGitHubAuth")
  /\ netrc' = spmGitHubAuthNetrc(netrc, props, invocation.env, fsOk)
  /\ UNCHANGED <<gradleProperties, manifest, stringsXml, appDelegate>>
  /\ ModDone

ECSDKManifestMod ==
  /\ ModRuns("withECSDKManifest")
  /\ manifest' = withECSDKManifestResult(manifest, props)
  /\ UNCHANGED <<netrc, gradleProperties, stringsXml, appDelegate>>
  /\ ModDone

ECSDKGradlePropertiesMod ==
  /\ ModRuns("withECSDKGradleProperties")
  /\ gradleProperties' =
       withECSDKGradlePropertiesResult(gradleProperties, props)
  /\ UNCHANGED <<netrc, manifest, stringsXml, appDelegate>>
  /\ ModDone

ECSDKStringsMod ==
  /\ ModRuns("withECSDKStrings")
  /\ stringsXml' =
       withECSDKStringsResult(stringsXml,
                              withECSDKStringsOptions(pluginCopy, props))
  /\ UNCHANGED <<netrc, gradleProperties, manifest, appDelegate>>
  /\ ModDone

\* a mod that throws ends the generation
AppDelegateInitializationMod ==
  LET r == withAppDelegateInitializationResult(
             appDelegate, withAppDelegateOptions(pluginCopy, props))
  IN /\ ModRuns("withAppDelegateInitialization")
     /\ appDelegate' = r.contents
     /\ thrown' = r.error
     /\ mods' = IF IsSome(r.error) THEN <<>> ELSE Tail(mods)
     /\ applied' = applied \cup {Head(mods)}
     /\ UNCHANGED <<pluginCopy, props, invocation, runs, netrc,
                    gradleProperties, manifest, stringsXml, facadeVars,
                    extractVars, patchVars>>

\* a mutator that edits none of the files above
OtherMod ==
  /\ Generating
  /\ mods # <<>>
  /\ Head(mods) \notin FileMods
  /\ UNCHANGED <<netrc, gradleProperties, manifest, stringsXml, appDelegate>>
  /\ ModDone

PluginNext ==
  \/ WithECSDK
  \/ \E fsOk \in BOOLEAN : SPMGitHubAuthMod(fsOk)
  \/ ECSDKManifestMod
  \/ ECSDKGradlePropertiesMod
  \/ ECSDKStringsMod
  \/ AppDelegateInitializationMod
  \/ OtherMod

PluginSpec == PluginInit /\ [][PluginNext]_vars

(***************************************************************************)
(* The source-patching mutators, each applied to bounded sources and then  *)
(* again to its own output                                                 *)
(***************************************************************************)
\* the options withSPMGitHubAuth is given: each credential, present or not
CredentialProps ==
  {p \in AllProps :
     /\ p.ecsdkApiKey = Nil /\ p.googleMapsApiKey = Nil
     /\ p.googleServicesFile = Nil
     /\ p.productKey = Nil /\ p.productName = Nil}

\* the options a mutator is given: apiKey and productKey, present or not
PatchProps ==
  {p \in AllProps :
     /\ p.googleMapsApiKey = Nil /\ p.googleServicesFile = Nil
     /\ p.productName = Nil
     /\ p.githubUsername = Nil /\ p.githubToken = Nil}

\* the sources each mutator is applied to
PatchInputs(m) ==
  CASE m = "withAppDelegateInitialization" -> AppDelegates
    [] m = "withGitHubPackagesRepository" -> ProjectBuildGradles
    [] m = "withGoogleServicesGradle" -> ProjectBuildGradles
    [] m = "withSPMGitHubAuth" -> Netrcs
    [] m = "withGoogleServicesAppGradle" -> AppBuildGradles
    [] m = "withECSDKDependency" -> AppBuildGradles
    [] m = "withCoreLibraryDesugaring" -> AppBuildGradles
    [] m = "withECSDKMainApplication" -> MainApplications
    [] m = "withSPMFrameworks" -> Podfiles

\* the options that matter to each mutator
PatchOptions(m) ==
  CASE m = "withAppDelegateInitialization" -> PatchProps
    [] m = "withSPMGitHubAuth" -> CredentialProps
    [] OTHER -> {NoProps}

PatchMutators ==
  {"withAppDelegateInitialization", "withGitHubPackagesRepository",
   "withGoogleServicesGradle", "withSPMGitHubAuth",
   "withGoogleServicesAppGradle", "withECSDKDependency",
   "withCoreLibraryDesugaring", "withECSDKMainApplication",
   "withSPMFrameworks"}

PatchInit ==
  /\ FacadeAtRest
  /\ ExtractAtRest
  /\ NoGeneration
  /\ invocation = ConfigEvaluation
  /\ mutator \in PatchMutators
  /\ props \in PatchOptions(mutator)
  /\ contents \in PatchInputs(mutator)
  /\ previous = contents

\* the mutator under study runs on the current contents
Patches(m) == mutator = m /\ runs < MaxRuns /\ thrown = Nil

Patched(result) ==
  /\ previous' = contents
  /\ contents' = result
  /\ runs' = runs + 1
  /\ UNCHANGED <<mutator, pluginCopy, props, invocation, mods, applied, netrc,
                 gradleProperties, manifest, stringsXml, appDelegate,
                 facadeVars, extractVars>>

PatchAppDelegate ==
  LET r == withAppDelegateInitializationResult(
             contents, [apiKey |-> props.ecsdkApiKey,
                        productKey |-> props.productKey])
  IN /\ Patches("withAppDelegateInitialization")
     /\ thrown' = r.error
     /\ Patched(r.contents)

PatchGitHubPackagesRepository ==
  /\ Patches("withGitHubPackagesRepository")
  /\ UNCHANGED thrown
  /\ Patched(withGitHubPackagesRepositoryResult(contents))

PatchGoogleServicesGradle ==
  /\ Patches("withGoogleServicesGradle")
  /\ UNCHANGED thrown
  /\ Patched(withGoogleServicesGradleResult(contents))

\* contents: the text of ~/.netrc (the empty text when there is no file)
PatchSPMGitHubAuth(fsOk) ==
  /\ Patches("withSPMGitHubAuth")
  /\ UNCHANGED thrown
  /\ Patched(Get(spmGitHubAuthNetrc(Some(contents), props, invocation.env,
                                    fsOk)))

PatchGoogleServicesAppGradle ==
  /\ Patches("withGoogleServicesAppGradle")
  /\ UNCHANGED thrown
  /\ Patched(withGoogleServicesAppGradleResult(contents))

PatchECSDKDependency ==
  /\ Patches("withECSDKDependency")
  /\ UNCHANGED thrown
  /\ Patched(withECSDKDependencyResult(contents))

PatchCoreLibraryDesugaring ==
  /\ Patches("withCoreLibraryDesugaring")
  /\ UNCHANGED thrown
  /\ Patched(withCoreLibraryDesugaringResult(contents))

PatchECSDKMainApplication ==
  /\ Patches("withECSDKMainApplication")
  /\ UNCHANGED thrown
  /\ Patched(withECSDKMainApplicationResult(contents))

PatchSPMFrameworks ==
  /\ Patches("withSPMFrameworks")
  /\ UNCHANGED thrown
  /\ Patched(withSPMFrameworksResult(contents))

PatchNext ==
  \/ PatchAppDelegate
  \/ \E fsOk \in BOOLEAN : PatchSPMGitHubAuth(fsOk)
  \/ PatchGitHubPackagesRepository
  \/ PatchGoogleServicesGradle
  \/ PatchGoogleServicesAppGradle
  \/ PatchECSDKDependency
  \/ PatchCoreLibraryDesugaring
  \/ PatchECSDKMainApplication
  \/ PatchSPMFrameworks

PatchSpec == PatchInit /\ [][PatchNext]_vars

(***************************************************************************)
(* Properties                                                              *)
(***************************************************************************)
AsyncOps == {"createClient", "updateClientInfo", "listOrganizations",
             "joinOrganization", "setActiveOrganization", "getFCMToken",
             "updateFCMToken"}

Settled(r) == r.op # "none" /\ r.settles > 0
Out(r) == Get(r.outcome)

C2_SettledAtMostOnce ==
  \A s \in Slots : requests[s].op \in AsyncOps => requests[s].settles <= 1

\* C3: every async request whose vendor calls complete is eventually settled.
C3_EventuallySettled ==
  \A s \in Slots :
    (requests[s].op # "none") ~> (requests[s].settles > 0)

C3_Witness ==
  \E s \in Slots :
    /\ platform = "android"
    /\ requests[s].op = "joinOrganization"
    /\ requests[s].vendorCalls = 2
    /\ Settled(requests[s])
    /\ requests[s].inflight = {}

\* C4: with no session token, joinOrganization and listOrganizations are
\* rejected at once (JOIN_ORG_ERROR / LIST_ORG_ERROR) and make no vendor call.
C4_NoTokenFailsFast ==
  \A s \in Slots :
    LET r == requests[s] IN
    (r.op \in {"joinOrganization", "listOrganizations"} /\ ~r.hadToken) =>
      /\ r.vendorCalls = 0
      /\ r.settles = 1
      /\ Out(r).kind = "reject"
      /\ Out(r).code = IF r.op = "joinOrganization" THEN "JOIN_ORG_ERROR"
                       ELSE "LIST_ORG_ERROR"

C6_ScreensNeedToken ==
  (ui.op \in SessionScreens /\ token = Nil) => ui.effect \in {"alert", "throw"}

\* C7: a successful vendor list completion with an absent, null or empty
\* collection resolves listOrganizations with the empty sequence.
C7_EmptyListResolves ==
  \A s \in Slots :
    LET r == requests[s] IN
    (r.op = "listOrganizations" /\ r.delivered \in {"noOrgs", "null", "empty"}) =>
      /\ r.settles >= 1
      /\ Out(r) = Resolved(VList(<<>>))

C7_Witness ==
  \E s \in Slots :
    /\ requests[s].op = "listOrganizations"
    /\ requests[s].delivered = "noOrgs"
    /\ Settled(requests[s])

\* C8: createClient resolves {token: t} when the vendor succeeds with t and
\* rejects with CREATE_CLIENT_ERROR and message m when the vendor fails with m.
C8_CreateClientMapping ==
  \A s \in Slots :
    LET r == requests[s] IN
    (r.op = "createClient" /\ Settled(r) /\ IsSome(r.payload)) =>
      /\ r.delivered = "ok" => Out(r) = Resolved(VTokenResponse(Get(r.payload)))
      /\ r.delivered = "error" =>
           Out(r) = Rejected("CREATE_CLIENT_ERROR", Get(r.payload))

\* C9: Android setActiveOrganization(id) rejects with "Organization not
\* found", leaving the active organization unchanged, exactly when id is in
\* neither the cached joined list nor the list the vendor delivers; when id is
\* in either, the matching organization becomes active and it resolves.
C9_State ==
  \A s \in Slots :
    LET r == requests[s] IN
    (platform = "android" /\ r.op = "setActiveOrganization" /\ Settled(r)) =>
      /\ (Out(r) = Rejected("ECSDK_ERROR", "Organization not found"))
           <=> (~r.cachedHit /\ r.delivered = "miss")
      /\ (r.cachedHit \/ r.delivered = "hit") =>
           /\ Out(r) = Resolved(VSuccess)
           /\ IsSome(activeOrganization)
           /\ Get(activeOrganization).id = r.id

C9_RejectKeepsActive ==
  \A s \in Slots :
    (/\ platform = "android"
     /\ requests'[s].op = "setActiveOrganization"
     /\ requests[s].settles = 0
     /\ requests'[s].settles = 1
     /\ Get(requests'[s].outcome).kind = "reject")
    => activeOrganization' = activeOrganization

CandidatePriority ==
  <<"organizationId", "id", "_organizationId", "organizationID", "_id">>

\* the Int held by the highest-ranked candidate name that holds one, else 0
RECURSIVE FirstByPriority(_, _)
FirstByPriority(fields, k) ==
  IF k > Len(CandidatePriority) THEN 0
  ELSE IF \E i \in 1..Len(fields) :
            fields[i].label = CandidatePriority[k] /\ fields[i].int
       THEN LET i == CHOOSE j \in 1..Len(fields) :
                       fields[j].label = CandidatePriority[k] /\ fields[j].int
            IN fields[i].value
       ELSE FirstByPriority(fields, k + 1)

\* C11: identifier extraction returns the Int of the first candidate name in
\* the priority list (organizationId, id, _organizationId, organizationID,
\* _id) that holds one, whatever the declaration order of the fields, and 0
\* when no candidate field holds an Int.
C11_ExtractionByPriority ==
  IsSome(extracted) => Get(extracted) = FirstByPriority(mirror, 1)

\* the fixed rejection code the specification gives each operation
VendorFailureCode(op) ==
  IF op = "updateClientInfo" THEN "UPDATE_CLIENT_ERROR"
  ELSE IF op = "listOrganizations" THEN "LIST_ORG_ERROR"
  ELSE "JOIN_ORG_ERROR"

\* C12: when the vendor fails updateClientInfo, listOrganizations or
\* joinOrganization with message m, the promise is rejected with the
\* operation's fixed code (UPDATE_CLIENT_ERROR, LIST_ORG_ERROR,
\* JOIN_ORG_ERROR) and with m verbatim, and the vendor call is not made again.
C12_VendorFailureMapping ==
  \A s \in Slots :
    LET r == requests[s] IN
    (/\ r.op \in {"updateClientInfo", "listOrganizations", "joinOrganization"}
     /\ r.delivered = "error"
     /\ IsSome(r.payload)) =>
      /\ r.settles >= 1
      /\ Out(r) = Rejected(VendorFailureCode(r.op), Get(r.payload))
      /\ r.vendorCalls <= (IF platform = "android" /\ r.op = "joinOrganization"
                           THEN 2 ELSE 1)

\* a logout step leaves no token: getClientToken returns null
C13_LogoutClearsToken == Logout => getClientToken' = VNull

\* without a token, a token appears only through login or createClient
C13_LoggedOutUntilLoginOrCreate ==
  (token = Nil /\ token' # Nil) =>
    \/ \E t \in Tokens : Login(t)
    \/ \E s \in Slots : requests[s].op = "createClient"

\* without a token the session-gated operations fail their precondition:
\* join / list are rejected with no vendor call, and the organization,
\* profile and message screens are not presented
C13_GatedOperationsFail ==
  /\ \A s \in Slots :
       LET r == requests[s] IN
       (r.op \in {"joinOrganization", "listOrganizations"} /\ ~r.hadToken) =>
         /\ r.vendorCalls = 0
         /\ r.settles = 1
         /\ Out(r).kind = "reject"
  /\ (ui.op \in SessionScreens /\ token = Nil) => ui.effect # "screen"

\* C13: logout leads to LoggedOut from any session state: right after it
\* getClientToken returns null, and every session-gated operation fails its
\* precondition until a later createClient or login.
C13_LogoutLeadsToLoggedOut ==
  /\ [][C13_LogoutClearsToken /\ C13_LoggedOutUntilLoginOrCreate]_vars
  /\ []C13_GatedOperationsFail

\* the step in which a joinOrganization issued with a token and no active
\* organization resolves {success: true} makes the joined id the one
\* getActiveOrganization reports
C14_JoinStep ==
  \A s \in Slots :
    (/\ requests[s].op = "joinOrganization"
     /\ requests[s].hadToken
     /\ activeOrganization = Nil
     /\ requests[s].settles = 0
     /\ requests'[s].settles = 1
     /\ requests'[s].outcome = Some(Resolved(VSuccess)))
    => LET g == getActiveOrganizationOutcome(platform, activeOrganization')
       IN /\ g.kind = "resolve"
          /\ g.value.orgs[1].organizationId = requests[s].id

\* C14: on both platforms, from LoggedIn with no active organization, a
\* joinOrganization(id) that the vendor completes successfully makes id the
\* active organization: getActiveOrganization then reports organizationId =
\* id, not the sentinel.
C14_JoinActivatesOrganization == [][C14_JoinStep]_vars

\* C15: on both platforms every presentation operation (presentReportScreen,
\* presentOrganizationScreen, presentProfileScreen, showMessageList,
\* showCallPrompt) touches the view hierarchy or starts the native screen
\* only on the main / UI thread.
C15_PresentationOnMainThread ==
  (ui.op \in PresentOps /\ ui.effect \in {"screen", "alert"}) =>
    ui.thread = "main"

\* the step in which presentReportScreen's body runs
C16_ReportStep ==
  ui'.op = "presentReportScreen" =>
    /\ ui'.effect = "screen" => IsSome(activeOrganization)
    /\ activeOrganization = Nil =>
         /\ ui'.effect = (IF platform = "ios" THEN "alert" ELSE "throw")
         /\ activeOrganization' = Nil

\* C16: presentReportScreen presents the vendor report screen only when an
\* active organization is set; with none it shows a blocking alert (iOS) or
\* throws (Android), presents no report screen and leaves the active
\* organization absent.
C16_ReportNeedsActiveOrganization == [][C16_ReportStep]_vars

\* C17: a synchronous operation that cannot perform its effect (no host
\* activity, no root view controller, failed precondition) throws; none
\* returns normally having presented nothing.
C17_FailuresAreThrown ==
  (ui.op \in PresentOps /\ ui.effect # "screen") => ui.effect = "throw"

\* the required build-time values that are missing: not passed to the plugin
\* and, for the GitHub credentials, not in the environment either
C18_Missing ==
  {k \in {"ecsdkApiKey", "googleMapsApiKey", "googleServicesFile"} :
     ~IsSome(props[k])}
  \cup (IF Truthy(Or(props.githubUsername, invocation.env.GPR_USER))
        THEN {} ELSE {"githubUsername"})
  \cup (IF Truthy(Or(props.githubToken, invocation.env.GPR_API_KEY))
        THEN {} ELSE {"githubToken"})

\* the required values this copy of the plugin finds in none of the places
\* it reads (the gated copy reads the GitHub credentials from props only)
C18_NotProvided ==
  IF pluginCopy = "gated"
  THEN {k \in {"ecsdkApiKey", "googleMapsApiKey", "googleServicesFile",
               "githubUsername", "githubToken"} : ~IsSome(props[k])}
  ELSE C18_Missing

\* the Error that names a missing value
C18_ErrorFor(k) ==
  IF k = "ecsdkApiKey" THEN ErrApiKey
  ELSE IF k = "googleMapsApiKey" THEN ErrMapsKey
  ELSE IF k = "googleServicesFile" THEN ErrServicesFile
  ELSE ErrGitHub

C19_EnvCredentialsWritten ==
  (/\ Generating
   /\ runs > 0
   /\ mods = <<>>
   /\ IsSome(invocation.env.GPR_USER)
   /\ IsSome(invocation.env.GPR_API_KEY)
   /\ props.githubUsername = Nil
   /\ props.githubToken = Nil
   /\ IsSome(props.ecsdkApiKey)
   /\ IsSome(props.googleMapsApiKey)
   /\ IsSome(props.googleServicesFile)
   /\ Get(props.googleServicesFile).string) =>
    /\ thrown = Nil
    /\ IsSome(netrc)
    /\ \E i \in 1..(Len(Get(netrc)) - 2) :
         SubSeq(Get(netrc), i, i + 2) =
           NetrcEntry("github.com", Get(invocation.env.GPR_USER),
                      Get(invocation.env.GPR_API_KEY))
    /\ \E i \in 1..Len(gradleProperties) :
         gradleProperties[i] =
           Property("gpr.usr", Get(invocation.env.GPR_USER))
    /\ \E i \in 1..Len(gradleProperties) :
         gradleProperties[i] =
           Property("gpr.key", Get(invocation.env.GPR_API_KEY))

\* the services of the main application that handle MESSAGING_EVENT
C20_MessagingServices ==
  {i \in 1..Len(Get(manifest.service)) :
     "com.google.firebase.MESSAGING_EVENT" \in Get(manifest.service)[i].actions}

\* C20: once the manifest mutator has run, however many times, the main
\* application declares exactly one service with the MESSAGING_EVENT intent
\* filter, and its android:name is the fully qualified name of the shipped
\* class ECSDKFirebaseMessagingService (package expo.modules.ecsdkexpo).
C20_MessagingServiceRegistered ==
  ("withECSDKManifest" \in applied \/ (runs > 1 /\ thrown = Nil /\ Generating)) =>
    /\ IsSome(manifest.service)
    /\ Cardinality(C20_MessagingServices) = 1
    /\ \A i \in C20_MessagingServices :
         Get(manifest.service)[i].name = ShippedServiceClass

\* one entry per vendor organization carrying the vendor's own id, name and
\* description
C21_Lossless(S) ==
  LET q == SetToSeq(S)
  IN [i \in 1..Len(q) |->
        [organizationId |-> q[i].id, name |-> q[i].name,
         description |-> q[i].description]]

\* the step in which listOrganizations is first settled by a successful
\* vendor completion carrying a collection
C21_ListStep ==
  \A s \in Slots : \A again \in BOOLEAN : \A res \in ListResults :
    (/\ requests[s].settles = 0
     /\ res.ok
     /\ res.result = "orgs"
     /\ ListOrganizationsCallback(s, res, again))
    => requests'[s].outcome = Some(Resolved(VList(C21_Lossless(res.orgs))))

C21_AvailableLossless ==
  getAvailableOrganizations = VList(C21_Lossless(UNION organizations))

\* C21: the mapping from vendor organizations to the Organization shape is
\* lossless on both platforms: listOrganizations and
\* getAvailableOrganizations return exactly one entry per vendor
\* organization, with the vendor's organizationId, name and description.
C21_LosslessMapping == [][C21_ListStep]_vars /\ []C21_AvailableLossless

\* C22: whenever productKey is supplied to withECSDK, once the AppDelegate
\* and strings.xml mutators have run the injected AppDelegate code sets
\* ELERTSKit.productKey to it and strings.xml holds exactly one PRODUCT
\* string resource, whose value is it.
C22_ProductStrings ==
  {i \in 1..Len(stringsXml) : stringsXml[i].name = "PRODUCT"}

C22_Generated ==
  /\ Truthy(props.productKey)
  /\ {"withAppDelegateInitialization", "withECSDKStrings"} \subseteq applied

C22_IosProductKey ==
  \E i \in 1..Len(appDelegate) :
    appDelegate[i] = productKeyCode(props.productKey)

C22_AndroidProductString ==
  /\ Cardinality(C22_ProductStrings) = 1
  /\ \A i \in C22_ProductStrings :
       stringsXml[i].value = Get(props.productKey)

C22_ProductKeyOnBothPlatforms ==
  C22_Generated => C22_IosProductKey /\ C22_AndroidProductString

\* C23: after withAppDelegateInitialization has run with an API key and
\* without error on any AppDelegate source, the source contains exactly one
\* ELERTSKit.initializeDataUI call, at the start of
\* willFinishLaunchingWithOptions when that method exists and otherwise at
\* the start of didFinishLaunchingWithOptions.
C23_Calls ==
  {i \in 1..Len(contents) : contents[i] = InitializeDataUICall}

\* the call is in the code that follows the opening brace of the method,
\* before any statement the method had
C23_AtStartOf(method) ==
  LET m == FirstIndex(contents, method)
  IN /\ m > 0
     /\ \A c \in C23_Calls :
          /\ m < c
          /\ \A j \in (m + 1)..(c - 1) :
               contents[j] \notin {ReturnTrue, MethodEnd, ClassEnd}

C23_Ran ==
  /\ mutator = "withAppDelegateInitialization"
  /\ runs >= 1
  /\ Truthy(props.ecsdkApiKey)
  /\ thrown = Nil

C23_InitializedOnce ==
  C23_Ran =>
    /\ Cardinality(C23_Calls) = 1
    /\ IF Includes(contents, "willFinishLaunchingPattern")
       THEN C23_AtStartOf("willFinishLaunchingPattern")
       ELSE C23_AtStartOf("didFinishLaunchingPattern")

\* C24: on iOS a listOrganizations(joined) callback that succeeds with a
\* non-null set S, for either value of joined, replaces the SDK's cached list
\* with S, so that getAvailableOrganizations then returns the mapping of S; a
\* failure, a success with a null set and a call rejected for a missing
\* token leave the cached list and getAvailableOrganizations unchanged.
C24_CallbackStep ==
  \A s \in Slots : \A again \in BOOLEAN : \A res \in ListResults :
    (platform = "ios" /\ ListOrganizationsCallback(s, res, again))
    => IF res.ok /\ res.result = "orgs"
       THEN /\ organizations' = Some(res.orgs)
            /\ getAvailableOrganizations' = VList(iosOrgList(res.orgs))
       ELSE /\ organizations' = organizations
            /\ getAvailableOrganizations' = getAvailableOrganizations

C24_RejectedStep ==
  \A s \in Slots : \A joined \in BOOLEAN :
    (platform = "ios" /\ token = Nil /\ ListOrganizations(s, joined))
    => /\ requests'[s].outcome =
            Some(Rejected("LIST_ORG_ERROR",
                          "No client token available. Please login first."))
       /\ organizations' = organizations
       /\ getAvailableOrganizations' = getAvailableOrganizations

C24_ListReplacesCache == [][C24_CallbackStep /\ C24_RejectedStep]_vars

\* a joined and a not-joined call each resolved with a non-empty set that is
\* now the cached list
C24_ReplacedFor(joined) ==
  /\ platform = "ios"
  /\ \E s \in Slots :
       /\ requests[s].op = "listOrganizations"
       /\ requests[s].joined = joined
       /\ requests[s].delivered = "orgs"
       /\ IsSome(requests[s].outcome)
       /\ IsSome(organizations)
       /\ Get(organizations) # {}
       /\ Get(requests[s].outcome) =
            Resolved(VList(iosOrgList(Get(organizations))))

C24_Witness == C24_ReplacedFor(TRUE)

\* C25: on Android joinOrganization(id) first fetches the vendor's list and
\* invokes the vendor join only for an organization whose id is the requested
\* one; a null list or a list without that organization rejects without
\* invoking join and without changing the active organization; the active
\* organization becomes the joined one only when the vendor join completes
\* successfully.
\* (each of the three steps changes the record of its own request, which
\* is what the steps are told apart from the other slots' by)
C25_Joins(r) == {c \in r.inflight : c.api = "join"}

C25_CallStep ==
  \A s \in Slots :
    (platform = "android" /\ requests'[s] # requests[s]) =>
      \A id \in OrgIds :
        JoinOrganization(s, id)
        => /\ requests'[s].inflight = {Call("orgList", Nil)}
           /\ activeOrganization' = activeOrganization

C25_ListStep ==
  \A s \in Slots :
    (platform = "android" /\ requests'[s] # requests[s]) =>
      \A again \in BOOLEAN : \A res \in ListResults :
        JoinListCallback(s, res, again)
        => /\ activeOrganization' = activeOrganization
           /\ \A c \in C25_Joins(requests'[s]) :
                IsSome(c.target) /\ Get(c.target).id = requests[s].id
           /\ (res.ok /\ (res.result = "null"
                          \/ ~\E o \in res.orgs : o.id = requests[s].id))
              => /\ C25_Joins(requests'[s]) = C25_Joins(requests[s])
                 /\ requests'[s].vendorCalls = requests[s].vendorCalls
                 /\ requests'[s].settles = requests[s].settles + 1
                 /\ requests[s].settles = 0 =>
                      requests'[s].outcome \in
                        {Some(Rejected("ECSDK_ERROR",
                                       "Failed to get organizations")),
                         Some(Rejected("ECSDK_ERROR",
                                       "Organization not found"))}

C25_JoinStep ==
  \A s \in Slots :
    (platform = "android" /\ requests'[s] # requests[s]) =>
      \A again \in BOOLEAN : \A res \in PlainResults :
        \A c \in requests[s].inflight :
          JoinCallback(s, c, res, again)
          => activeOrganization' =
               IF res.ok THEN Some(VendorOrg(requests[s].id))
               ELSE activeOrganization

C26_UpdateStep ==
  \A s \in Slots : \A t \in Opt(FcmTokens) :
    UpdateFCMToken(s, t)
    => IF token = Nil
       THEN /\ requests'[s].outcome =
                 Some(Rejected("ECSDK_ERROR",
                               "Client not registered. Please register first."))
            /\ requests'[s].vendorCalls = 0
            /\ requests'[s].inflight = {}
       ELSE requests'[s].inflight = {Call("clientUpdate", Nil)}

C26_ServiceStep ==
  \A t \in FcmTokens : \A f \in SendFailures :
    OnNewToken(t, f)
    => /\ service'.clientUpdate => IsSome(token)
       /\ ~service'.propagated

C27_CallStep ==
  \A s \in Slots : \A t \in Opt(FcmTokens) :
    UpdateFCMToken(s, t)
    => IF IsSome(t)
       THEN storedFCMToken' = t /\ getStoredFCMToken' = VString(Get(t))
       ELSE storedFCMToken' = storedFCMToken

C27_SettleStep ==
  \A s \in Slots : \A again \in BOOLEAN : \A res \in PlainResults :
    UpdateFCMTokenCallback(s, res, again)
    => storedFCMToken' = storedFCMToken

RECURSIVE C30_Depth(_, _, _)
C30_Depth(src, i, j) ==
  IF j < i THEN 0
  ELSE C30_Depth(src, i, j - 1)
       + (IF "{" \in src[j].marks THEN 1 ELSE 0)
       - (IF "}" \in src[j].marks THEN 1 ELSE 0)

\* the closing brace that matches the opening brace at token open
C30_OwnClose(src, open) ==
  CHOOSE c \in (open + 1)..Len(src) :
    /\ C30_Depth(src, open, c) = 0
    /\ \A j \in (open + 1)..(c - 1) : C30_Depth(src, open, j) > 0

C30_Inserted ==
  /\ mutator = "withGitHubPackagesRepository"
  /\ runs = 1
  /\ blockMatch(previous, "allprojects", "repositories").close # 0
  /\ ~Includes(previous, "maven.pkg.github.com/elerts/ecsdk-android")

C30_DirectChildOfRepositories ==
  C30_Inserted =>
    contents =
      InsertAfter(previous,
                  C30_OwnClose(previous,
                    blockMatch(previous, "allprojects", "repositories").open) - 1,
                  githubPackagesRepo)

\* C29: after withSPMGitHubAuth has run with credentials (u, k) on any
\* existing .netrc content, the file contains exactly one machine github.com
\* entry, with login u and password k, every other machine's entry is
\* unchanged, and a further run with the same credentials leaves the file
\* identical: it does not grow.
\* the lines of the entries of machines other than github.com
RECURSIVE C29_Others(_, _)
C29_Others(src, inGithub) ==
  IF src = <<>> THEN <<>>
  ELSE LET l == Head(src)
           github == IF "machine" \in l.marks
                     THEN "machine github.com" \in l.marks
                     ELSE inGithub
       IN (IF github \/ "blank" \in l.marks THEN <<>> ELSE <<l>>)
          \o C29_Others(Tail(src), github)

C29_HasEntry(src, u, k) ==
  \E i \in 1..(Len(src) - 2) :
    SubSeq(src, i, i + 2) = NetrcEntry("github.com", u, k)

C29_Step ==
  (/\ mutator = "withSPMGitHubAuth"
   /\ Truthy(props.githubUsername)
   /\ Truthy(props.githubToken)
   /\ PatchSPMGitHubAuth(TRUE))
  => LET u == Get(props.githubUsername)
         k == Get(props.githubToken)
     IN /\ C29_HasEntry(contents', u, k)
        /\ Cardinality({i \in 1..Len(contents') :
                          "machine github.com" \in contents'[i].marks}) = 1
        /\ C29_Others(contents', FALSE) = C29_Others(contents, FALSE)
        /\ C29_HasEntry(contents, u, k) => contents' = contents

C29_OneEntryNoGrowth == [][C29_Step]_vars

\* C28: the source-patching mutators are idempotent: applying
\* withAppDelegateInitialization, withECSDKMainApplication,
\* withGitHubPackagesRepository, withGoogleServicesGradle,
\* withGoogleServicesAppGradle, withECSDKDependency,
\* withCoreLibraryDesugaring or withSPMFrameworks a second time, to its own
\* output, leaves the file identical.
C28_Mutators ==
  {"withAppDelegateInitialization", "withECSDKMainApplication",
   "withGitHubPackagesRepository", "withGoogleServicesGradle",
   "withGoogleServicesAppGradle", "withECSDKDependency",
   "withCoreLibraryDesugaring", "withSPMFrameworks"}

C28_Idempotent ==
  (mutator \in C28_Mutators /\ runs >= 2) => contents = previous

\* the dependency was added to a template build.gradle by the first run and
\* the mutator has run again
C28_Witness ==
  /\ mutator = "withECSDKDependency"
  /\ runs = 2
  /\ contents =
       withECSDKDependencyResult(AppBuildGradle(TRUE, TRUE, TRUE, FALSE))
  /\ contents # AppBuildGradle(TRUE, TRUE, TRUE, FALSE)
====
